---------------------------- MODULE Spec2Model ----------------------------
(***************************************************************************)
(* figma-tex-to-svg: the plugin frontend's session state machine           *)
(* (PluginFrontend + StateStore), the debounced sync to the host, and the  *)
(* plugin backend's selection / artifact handling (PluginBackend).         *)
(*                                                                         *)
(* The frontend runs on a single-threaded event loop.  One action is one   *)
(* macrotask (a DOM event, a message event, a timer callback) or one       *)
(* promise reaction (the typesetting engine settling, a .then              *)
(* continuation).  Handlers are written as functions from the frontend     *)
(* context (a record of every frontend field) to the context after the     *)
(* handler has returned; an action commits the result.                     *)
(***************************************************************************)
EXTENDS Integers, Sequences, FiniteSets, TLC

VARIABLES
    state,                  \* StateStore: the AppState record
    updateTimer,            \* PluginFrontend.updateTimer: last handle, 0 = null
    timeouts,               \* pending setTimeout handles of debouncedUpdate
    coalesced,              \* history: pending timers clearTimeout cancelled since the last idle arm
    saveTimer,              \* setupSubscriptions: a preference save is pending
    initializationResolver, \* PluginFrontend.initializationResolver is set
    isInitializing,         \* PluginFrontend.isInitializing
    pendingReset,           \* PluginFrontend.pendingReset
    output,                 \* children of the #output element
    inflight,               \* typesetMath calls that have not settled
    microtasks,             \* queued promise continuations of the frontend
    toHost,                 \* messages posted by the UI, not yet handled by the backend
    toStorage,              \* the saveUserPreferences message posted by the step just taken
    toUI,                   \* messages posted by the backend, not yet handled by the UI
    sinceEdit,              \* history: the messages posted since the last edit of an artifact, None after any other event
    placedAs,               \* history: the artifact the backend created for the last place message
    sentFor,                \* history: for each message of toHost, the artifact the UI was editing when it posted it
    canvas,                 \* backend: plugin data of the artifacts on the page
    selection,              \* backend: figma.currentPage.selection (abstracted)
    currentNodeWithData,    \* PluginBackend.currentNodeWithData
    initSent,               \* backend: the initialize message has been posted
    edits,                  \* number of user events in the UI so far
    selChanges,             \* number of user selection changes on the canvas so far
    loadedOver,             \* history: the create-mode options a loadNodeData replaced
    committed,              \* history: "placed" after Place with no draft, "loaded" once its artifact is loaded
    cleared,                \* history: the session as the last clearNodeData found it
    tree,                   \* matcher: the math node of the rendered tree (root)
    subtree,                \* matcher: the math node of the rendered sub-expression
    matches,                \* matcher: what findSubtreeMatches returned
    sortedMatches,          \* matcher: what getMatchesByTex returned
    occurrences,            \* applier: the occurrences string of the style entry
    painted,                \* applier: nodes of the tree whose fill was set
    reported,               \* applier: the error shown for the style entry
    styleList,              \* styling: the style entries of the list, in row order
    fill,                   \* styling: style.fill of each node of the tree
    shown,                  \* styling: the error messages the rows display
    runs,                   \* styling: runs of the applier so far
    colorInput,             \* color: the argument of expandColor
    expanded,               \* color: expandColor(colorInput)
    expandedAgain,          \* color: expandColor(expandColor(colorInput))
    ancestry,               \* selection: plugin data of the selected node and of its ancestors below the page
    selected                \* selection: number of nodes in figma.currentPage.selection

vars == <<state, updateTimer, timeouts, coalesced, saveTimer, initializationResolver,
          isInitializing, pendingReset, output, inflight, microtasks, toHost,
          toStorage, toUI, sentFor, placedAs, sinceEdit,
          canvas, selection, currentNodeWithData, initSent, edits, selChanges,
          loadedOver, committed, cleared,
          tree, subtree, matches, sortedMatches, occurrences, painted, reported,
          styleList, fill, shown, runs, colorInput, expanded, expandedAgain, ancestry, selected>>

\* the variables of the tree matcher and of the styling applier, which the
\* session leaves alone: it typesets through the abstract TypesetNode
matcherVars == <<tree, subtree, matches, sortedMatches, occurrences, painted, reported>>

\* the variables of the styling of a whole style list, of expandColor and of
\* the selection walk of the backend, each exercised apart from the session
stylingVars == <<styleList, fill, shown, runs>>
colorVars == <<colorInput, expanded, expandedAgain>>
selectionVars == <<ancestry, selected>>
apartVars == <<matcherVars, stylingVars, colorVars, selectionVars>>

---------------------------------------------------------------------------
(* Bounds of the model *)

MaxEdits == 1
MaxSelChanges == 2
MaxEvents == 2
MaxInFlight == 2
MaxQueue == 2
MaxArtifacts == 2
MaxStyles == 1

---------------------------------------------------------------------------
(* Values *)

Null == "null"
None == <<>>
Some(x) == <<x>>
IsSome(o) == o /= <<>>
Get(o) == o[1]

\* x=\frac{-b \pm \sqrt{b^2-4 a c}}{2 a}, abbreviated
DefaultExample == "x"

\* String.prototype.trim on the texts of the model
Trim(t) == IF t = " " THEN "" ELSE t

DEFAULT_RENDER_OPTIONS == [fontSize |-> 24, backgroundColor |-> "#000000",
                           fontColor |-> "#EEEEEE", display |-> TRUE]

THEME_DEFAULTS(theme) ==
    IF theme = "light" THEN [background |-> "FFFFFF", font |-> "333333"]
    ELSE [background |-> "000000", font |-> "EEEEEE"]

\* '#' + hex for the six-digit colors of the model
Hash(hex) ==
    CASE hex = "FFFFFF" -> "#FFFFFF"
      [] hex = "333333" -> "#333333"
      [] hex = "000000" -> "#000000"
      [] hex = "EEEEEE" -> "#EEEEEE"
      [] OTHER -> "#" \o hex

LIGHT_THEME_COLORS == <<"DC3412", "009951", "007bE5", "8638E5", "FFC21A">>
DARK_THEME_COLORS == <<"FF8A80", "79D297", "7CC4F8", "D6B6FB", "F7D15F">>

getNextSubExpressionColor(theme, currentCount) ==
    LET colors == IF theme = "light" THEN LIGHT_THEME_COLORS ELSE DARK_THEME_COLORS
        colorIndex == currentCount % Len(colors)
    IN  Hash(colors[colorIndex + 1])


---------------------------------------------------------------------------
(* StateStore *)

\* StateStore.updateState without its subscribers: the partial state is
\* merged over the current one, field by field
Merge(st, partial) ==
    [k \in DOMAIN st |-> IF k \in DOMAIN partial THEN partial[k] ELSE st[k]]

\* StateStore.needsFullRender
needsFullRender(st) ==
    \/ st.lastRenderedTex /= Some(st.renderOptions.tex)
    \/ st.lastRenderedDisplay /= Some(st.renderOptions.display)
    \/ st.currentSVGWrapper = None

\* The preference subscription of setupSubscriptions, run synchronously on
\* every state update: in create mode it cancels and re-arms the save timer
prefSubscription(f) ==
    IF f.state.mode = "create" THEN [f EXCEPT !.saveTimer = TRUE] ELSE f

\* stateStore.updateState(partial) as the frontend observes it: merge, then
\* the subscribers run before the call returns
updateState(f, partial) ==
    prefSubscription([f EXCEPT !.state = Merge(f.state, partial)])

---------------------------------------------------------------------------
(* Debounced sync pusher *)

\* a handle setTimeout has not handed out among the live ones
FreshHandle(f, pending) ==
    CHOOSE h \in 1..(Cardinality(pending) + 2) :
        /\ h \notin pending
        /\ h /= f.updateTimer
        /\ \A k \in 1..(h - 1) : k \in pending \/ k = f.updateTimer

\* debouncedUpdate without its clearTimeout
debouncedUpdate_noClearTimeout(f) ==
    LET h == FreshHandle(f, f.timeouts)
    IN  [f EXCEPT !.timeouts = @ \cup {h}, !.updateTimer = h]

debouncedUpdate(f) ==
    LET pending == IF f.updateTimer /= 0 THEN f.timeouts \ {f.updateTimer}
                   ELSE f.timeouts
        h == FreshHandle(f, pending)
    IN  [f EXCEPT !.timeouts = pending \cup {h}, !.updateTimer = h,
                  !.coalesced = IF f.updateTimer \in f.timeouts THEN @ + 1 ELSE 0]

MATHJAX_DEFAULT_FONT_SIZE_X2 == 27

\* prepareMessageData testing only that #output has a first child
prepareMessageData_anyChild(f, updateExisting) ==
    IF f.output = <<>> THEN None
    ELSE LET options == f.state.renderOptions
         IN  Some([type |-> "svg",
                   tex |-> options.tex,
                   svg |-> f.output[1],
                   scale |-> <<2 * options.fontSize, MATHJAX_DEFAULT_FONT_SIZE_X2>>,
                   display |-> options.display,
                   backgroundColor |-> options.backgroundColor,
                   fontColor |-> options.fontColor,
                   fontSize |-> options.fontSize,
                   subExpressionStyles |-> options.subExpressionStyles,
                   updateExisting |-> updateExisting])

\* prepareMessageData: None when #output has no first child holding an svg
prepareMessageData(f, updateExisting) ==
    IF f.output = <<>> \/ f.output[1].kind /= "svg" THEN None
    ELSE LET options == f.state.renderOptions
         IN  Some([type |-> "svg",
                   tex |-> options.tex,
                   svg |-> f.output[1],
                   scale |-> <<2 * options.fontSize, MATHJAX_DEFAULT_FONT_SIZE_X2>>,
                   display |-> options.display,
                   backgroundColor |-> options.backgroundColor,
                   fontColor |-> options.fontColor,
                   fontSize |-> options.fontSize,
                   subExpressionStyles |-> options.subExpressionStyles,
                   updateExisting |-> updateExisting])

postMessage(f, msg) == [f EXCEPT !.toHost = Append(@, msg)]

\* sendUpdateToFigma without its test of the mode
sendUpdateToFigma_anyMode(f) ==
    LET data == prepareMessageData(f, TRUE)
    IN  IF data = None THEN f ELSE postMessage(f, Get(data))

sendUpdateToFigma(f) ==
    IF f.state.mode /= "edit" THEN f
    ELSE LET data == prepareMessageData(f, TRUE)
         IN  IF data = None THEN f ELSE postMessage(f, Get(data))

---------------------------------------------------------------------------
(* Render dispatcher *)

MessageElement == [kind |-> "div"]
ErrorElement == [kind |-> "pre"]

\* identity of the DOM node a typesetMath call will produce
FreshRid(f) ==
    LET used == {r.rid : r \in f.inflight}
                \cup {f.output[i].rid : i \in {j \in 1..Len(f.output) : f.output[j].kind = "svg"}}
    IN  CHOOSE n \in 1..(Cardinality(used) + 1) :
            n \notin used /\ \A k \in 1..(n - 1) : k \in used

\* the node typesetMath resolves with: typeset from tex and display, base
\* color set, font size stamped, sub-expression styles applied
TypesetNode(rid, options) ==
    [kind |-> "svg", rid |-> rid, tex |-> options.tex, display |-> options.display,
     fontColor |-> options.fontColor, fontSize |-> options.fontSize,
     subExpressionStyles |-> options.subExpressionStyles]

\* renderMath up to the call of typesetMath.  then = "load" when the caller
\* chains loadNodeData's continuation on the returned promise.
renderMath(f, then) ==
    LET options == f.state.renderOptions
        f1 == [f EXCEPT !.output = <<>>]
    IN  IF Trim(options.tex) = ""
        THEN LET f2 == updateState([f1 EXCEPT !.output = <<MessageElement>>],
                                   [currentSVGWrapper |-> None,
                                    lastRenderedTex |-> None,
                                    lastRenderedDisplay |-> None])
             IN  IF then = "load" THEN [f2 EXCEPT !.microtasks = Append(@, "loadThen")]
                 ELSE f2
        ELSE LET f2 == updateState(f1, [currentSVGWrapper |-> None])
             IN  [f2 EXCEPT !.inflight = @ \cup {[rid |-> FreshRid(f2),
                                                  options |-> options,
                                                  then |-> then]}]

\* the in-place restyle of updateFontColor, updateFontSize and
\* updateSubExpressionStyles on the node currentSVGWrapper refers to
Restyle(out, rid, options) ==
    [i \in 1..Len(out) |->
        IF out[i].kind = "svg" /\ out[i].rid = rid
        THEN [out[i] EXCEPT !.fontColor = options.fontColor,
                            !.fontSize = options.fontSize,
                            !.subExpressionStyles = options.subExpressionStyles]
        ELSE out[i]]

RestyleSub(out, rid, styles) ==
    [i \in 1..Len(out) |->
        IF out[i].kind = "svg" /\ out[i].rid = rid
        THEN [out[i] EXCEPT !.subExpressionStyles = styles]
        ELSE out[i]]

updateStyling(f) ==
    LET st == f.state
        options == st.renderOptions
    IN  IF st.currentSVGWrapper = None THEN f
        ELSE LET f1 == [f EXCEPT !.output = Restyle(@, Get(st.currentSVGWrapper), options)]
             IN  IF ~st.isLoadingNodeData /\ st.mode = "edit"
                 THEN debouncedUpdate(f1) ELSE f1

updateSubExpressionStylesDirectly(f) ==
    LET st == f.state
    IN  IF st.currentSVGWrapper = None THEN f
        ELSE LET f1 == [f EXCEPT !.output = RestyleSub(@, Get(st.currentSVGWrapper),
                                                       st.renderOptions.subExpressionStyles)]
             IN  IF ~st.isLoadingNodeData /\ st.mode = "edit"
                 THEN debouncedUpdate(f1) ELSE f1

\* convert taking the full-render path whatever needsFullRender says
convert_alwaysRenders(f) == renderMath(f, "none")

convert(f) ==
    IF needsFullRender(f.state) THEN renderMath(f, "none") ELSE updateStyling(f)

\* the .then of renderMath arming the timer without looking at
\* isLoadingNodeData
renderResolved_ignoresLoading(f, r) ==
    LET node == TypesetNode(r.rid, r.options)
        f1 == [f EXCEPT !.output = Append(@, node), !.inflight = @ \ {r}]
        f2 == updateState(f1, [currentSVGWrapper |-> Some(r.rid),
                               lastRenderedTex |-> Some(r.options.tex),
                               lastRenderedDisplay |-> Some(r.options.display)])
        f3 == IF f2.state.mode = "edit" THEN debouncedUpdate(f2) ELSE f2
    IN  IF r.then = "load" THEN [f3 EXCEPT !.microtasks = Append(@, "loadThen")] ELSE f3

\* the .then of renderMath: typesetMath resolved with the node of call r
renderResolved(f, r) ==
    LET node == TypesetNode(r.rid, r.options)
        f1 == [f EXCEPT !.output = Append(@, node), !.inflight = @ \ {r}]
        f2 == updateState(f1, [currentSVGWrapper |-> Some(r.rid),
                               lastRenderedTex |-> Some(r.options.tex),
                               lastRenderedDisplay |-> Some(r.options.display)])
        f3 == IF ~f2.state.isLoadingNodeData /\ f2.state.mode = "edit"
              THEN debouncedUpdate(f2) ELSE f2
    IN  IF r.then = "load" THEN [f3 EXCEPT !.microtasks = Append(@, "loadThen")] ELSE f3

\* the .catch of renderMath leaving the tracked render state as it is
renderRejected_keepsTracked(f, r) ==
    LET f1 == [f EXCEPT !.output = Append(@, ErrorElement), !.inflight = @ \ {r}]
    IN  IF r.then = "load" THEN [f1 EXCEPT !.microtasks = Append(@, "loadThen")] ELSE f1

\* the .catch of renderMath: typesetMath rejected
renderRejected(f, r) ==
    LET f1 == [f EXCEPT !.output = Append(@, ErrorElement), !.inflight = @ \ {r}]
        f2 == updateState(f1, [currentSVGWrapper |-> None,
                               lastRenderedTex |-> None,
                               lastRenderedDisplay |-> None])
    IN  IF r.then = "load" THEN [f2 EXCEPT !.microtasks = Append(@, "loadThen")] ELSE f2

---------------------------------------------------------------------------
(* Mode / draft controller *)

\* saveDraftState saving nothing
saveDraftState_skipped(f) == f

saveDraftState(f) ==
    updateState(f, [draftState |-> Some(f.state.renderOptions)])

\* restoreDraftState leaving the draft in place
restoreDraftState_keepsDraft(f) ==
    IF IsSome(f.state.draftState)
    THEN convert(updateState(f, [renderOptions |-> Get(f.state.draftState)]))
    ELSE f

restoreDraftState(f) ==
    IF IsSome(f.state.draftState)
    THEN convert(updateState(f, [renderOptions |-> Get(f.state.draftState),
                                 draftState |-> None]))
    ELSE f

\* switchToCreateMode leaving currentNodeId as it is
switchToCreateMode_keepsNode(f) ==
    IF IsSome(f.state.draftState)
    THEN restoreDraftState(updateState(f, [mode |-> "create"]))
    ELSE convert(updateState(f,
            [mode |-> "create",
             renderOptions |-> [f.state.renderOptions EXCEPT !.tex = ""],
             lastRenderedTex |-> None,
             lastRenderedDisplay |-> None,
             currentSVGWrapper |-> None]))

\* switchToCreateMode clearing the sub-expression styles along with the text
switchToCreateMode_clearsStyles(f) ==
    IF IsSome(f.state.draftState)
    THEN restoreDraftState(updateState(f, [mode |-> "create", currentNodeId |-> Null]))
    ELSE convert(updateState(f,
            [mode |-> "create",
             currentNodeId |-> Null,
             renderOptions |-> [f.state.renderOptions EXCEPT
                                   !.tex = "", !.subExpressionStyles = <<>>],
             lastRenderedTex |-> None,
             lastRenderedDisplay |-> None,
             currentSVGWrapper |-> None]))

switchToCreateMode(f) ==
    IF IsSome(f.state.draftState)
    THEN restoreDraftState(updateState(f, [mode |-> "create", currentNodeId |-> Null]))
    ELSE convert(updateState(f,
            [mode |-> "create",
             currentNodeId |-> Null,
             renderOptions |-> [f.state.renderOptions EXCEPT !.tex = ""],
             lastRenderedTex |-> None,
             lastRenderedDisplay |-> None,
             currentSVGWrapper |-> None]))

\* the DOM text input mirrors renderOptions.tex (updateUIFromState runs on
\* every state update), so the two emptiness tests agree
injectDefaultExampleIfEmpty(f) ==
    IF Trim(f.state.renderOptions.tex) = ""
    THEN updateState(f, [renderOptions |->
                            [f.state.renderOptions EXCEPT !.tex = DefaultExample]])
    ELSE f

resetToDefaults(f) ==
    LET defaults == THEME_DEFAULTS(f.state.theme)
        defaultRenderOptions ==
            [tex |-> "",
             display |-> DEFAULT_RENDER_OPTIONS.display,
             fontSize |-> DEFAULT_RENDER_OPTIONS.fontSize,
             backgroundColor |-> Hash(defaults.background),
             fontColor |-> Hash(defaults.font),
             subExpressionStyles |-> <<>>]
        f1 == updateState(f, [renderOptions |-> defaultRenderOptions,
                              mode |-> "create",
                              currentNodeId |-> Null,
                              lastRenderedTex |-> None,
                              lastRenderedDisplay |-> None,
                              currentSVGWrapper |-> None,
                              isLoadingNodeData |-> FALSE,
                              draftState |-> None])
        f2 == [f1 EXCEPT !.pendingReset = FALSE]
    IN  convert(injectDefaultExampleIfEmpty(f2))

\* x || d of JavaScript on strings and on numbers
OrStr(x, d) == IF x = "" THEN d ELSE x
OrNum(x, d) == IF x = 0 THEN d ELSE x

NormalizeStyles(styles) ==
    [i \in 1..Len(styles) |->
        [expression |-> styles[i].expression,
         color |-> OrStr(styles[i].color, "#000000"),
         occurrences |-> styles[i].occurrences]]

\* the RenderOptions built from saved text and saved options, as
\* loadNodeData, handleInitializationMessage and loadUserPreferences build it
OptionsFrom(tex, ro) ==
    [tex |-> tex,
     display |-> ro.display,
     fontSize |-> OrNum(ro.fontSize, DEFAULT_RENDER_OPTIONS.fontSize),
     backgroundColor |-> OrStr(ro.backgroundColor, DEFAULT_RENDER_OPTIONS.backgroundColor),
     fontColor |-> OrStr(ro.fontColor, DEFAULT_RENDER_OPTIONS.fontColor),
     subExpressionStyles |-> NormalizeStyles(ro.subExpressionStyles)]

loadUserPreferences(f, prefs) ==
    updateState(f, [renderOptions |-> OptionsFrom(prefs.tex, prefs)])

\* the saveUserPreferences message of saveUserPreferences()
PreferencesMessage(f) ==
    LET options == f.state.renderOptions
    IN  [type |-> "saveUserPreferences",
         options |-> options,
         draftState |-> IF f.state.mode = "create"
                        THEN Some([tex |-> options.tex,
                                   subExpressionStyles |-> options.subExpressionStyles])
                        ELSE None]

\* A saveUserPreferences message ends in a clientStorage write that nothing
\* reads before the next session (PluginBackend.saveUserPreferences), so it
\* is handed over at once and does not wait in toHost.
postPreferences(f, msg) == [f EXCEPT !.toStorage = Some(msg)]

saveUserPreferences(f) == postPreferences(f, PreferencesMessage(f))

clearDraftStateFromPreferences(f) ==
    postPreferences(f, [type |-> "saveUserPreferences",
                        options |-> f.state.renderOptions,
                        draftState |-> None])

applyTheme(f, theme) ==
    LET defaults == THEME_DEFAULTS(theme)
    IN  convert(updateState(f,
            [theme |-> theme,
             renderOptions |-> [f.state.renderOptions EXCEPT
                                   !.backgroundColor = Hash(defaults.background),
                                   !.fontColor = Hash(defaults.font)]]))

\* loadNodeData leaving currentNodeId as it is
loadNodeData_keepsNodeId(f, message) ==
    LET f1 == updateState(f, [isLoadingNodeData |-> TRUE])
        f2 == IF f1.state.mode = "create" THEN saveDraftState(f1) ELSE f1
        options == OptionsFrom(message.texSource, message.renderOptions)
        f3 == updateState(f2, [renderOptions |-> options, mode |-> "edit"])
    IN  renderMath(f3, "load")

loadNodeData(f, message) ==
    LET f1 == updateState(f, [isLoadingNodeData |-> TRUE])
        f2 == IF f1.state.mode = "create" THEN saveDraftState(f1) ELSE f1
        options == OptionsFrom(message.texSource, message.renderOptions)
        f3 == updateState(f2, [renderOptions |-> options,
                               mode |-> "edit",
                               currentNodeId |-> message.nodeId])
    IN  renderMath(f3, "load")

\* the continuation loadNodeData chains on renderMath's promise; it runs
\* whether the render resolved or rejected
loadThen(f) == updateState(f, [isLoadingNodeData |-> FALSE])

handleInitializationMessage(f, message) ==
    LET f1 == IF message.theme \in {"dark", "light"} THEN applyTheme(f, message.theme) ELSE f
        nodeData == message.selection.nodeData
        \* a node is selected
        n1 == updateState(f1, [isLoadingNodeData |-> TRUE])
        n2 == IF n1.state.mode = "create" THEN saveDraftState(n1) ELSE n1
        n3 == updateState(n2, [renderOptions |-> OptionsFrom(Get(nodeData).texSource,
                                                             Get(nodeData).renderOptions),
                               mode |-> "edit",
                               currentNodeId |-> Get(nodeData).nodeId,
                               isLoadingNodeData |-> FALSE])
        \* no node is selected
        prefs == Get(message.userPreferences)
        draft == Get(prefs.draftState)
        d1 == loadUserPreferences(f1, [prefs EXCEPT
                                          !.tex = draft.tex,
                                          !.subExpressionStyles = draft.subExpressionStyles])
        d2 == updateState(d1, [draftState |->
                                  Some([d1.state.renderOptions EXCEPT
                                           !.tex = draft.tex,
                                           !.subExpressionStyles = draft.subExpressionStyles])])
        p1 == loadUserPreferences(f1, [prefs EXCEPT !.tex = "", !.subExpressionStyles = <<>>])
        f2 == IF message.selection.hasNode /\ IsSome(nodeData) THEN n3
              ELSE IF IsSome(message.userPreferences)
                   THEN (IF IsSome(prefs.draftState) THEN d2 ELSE p1)
                   ELSE IF ~f1.pendingReset THEN injectDefaultExampleIfEmpty(f1)
                   ELSE f1
    IN  IF f2.initializationResolver
        THEN [f2 EXCEPT !.initializationResolver = FALSE,
                        !.microtasks = Append(@, "initThen")]
        ELSE f2

\* the .then of initialize(), run once waitForInitializationData resolves
initThen(f) ==
    LET f1 == [f EXCEPT !.isInitializing = FALSE]
    IN  IF f1.pendingReset
        THEN resetToDefaults([f1 EXCEPT !.pendingReset = FALSE])
        ELSE convert(f1)

\* the timeout callback of waitForInitializationData; it changes nothing
\* once the resolver has been cleared
initTimeoutFired(f) ==
    IF f.initializationResolver
    THEN [f EXCEPT !.initializationResolver = FALSE,
                   !.microtasks = Append(@, "initThen")]
    ELSE f

\* the listener of setupMessageListener
onMessage(f, message) ==
    CASE message.type = "initialize" -> handleInitializationMessage(f, message)
      [] message.type = "resetToDefaults" ->
            LET f1 == [f EXCEPT !.pendingReset = TRUE]
            IN  IF ~f1.isInitializing THEN resetToDefaults(f1) ELSE f1
      [] message.type = "loadNodeData" -> loadNodeData(f, message)
      [] message.type = "clearNodeData" -> switchToCreateMode(f)
      [] OTHER -> f

\* the click handler of the place button
placeClicked(f) ==
    LET data == prepareMessageData(f, FALSE)
    IN  IF data = None THEN f
        ELSE LET f1 == updateState(f, [draftState |-> None,
                                       mode |-> "edit",
                                       currentNodeId |-> Null])
             IN  postMessage(clearDraftStateFromPreferences(f1), Get(data))

---------------------------------------------------------------------------
(* Plugin backend *)

ArtifactIds == <<"n1", "n2", "n3", "n4", "n5">>

\* the renderOptions plugin data without the math display flag of the message
StoredOptions_defaultDisplay(msg) ==
    [display |-> DEFAULT_RENDER_OPTIONS.display,
     fontSize |-> OrNum(msg.fontSize, DEFAULT_RENDER_OPTIONS.fontSize),
     fontColor |-> OrStr(msg.fontColor, DEFAULT_RENDER_OPTIONS.fontColor),
     backgroundColor |-> OrStr(msg.backgroundColor, DEFAULT_RENDER_OPTIONS.backgroundColor),
     subExpressionStyles |-> NormalizeStyles(msg.subExpressionStyles)]

\* the renderOptions plugin data createOrUpdateNode writes
StoredOptions(msg) ==
    [display |-> msg.display,
     fontSize |-> OrNum(msg.fontSize, DEFAULT_RENDER_OPTIONS.fontSize),
     fontColor |-> OrStr(msg.fontColor, DEFAULT_RENDER_OPTIONS.fontColor),
     backgroundColor |-> OrStr(msg.backgroundColor, DEFAULT_RENDER_OPTIONS.backgroundColor),
     subExpressionStyles |-> NormalizeStyles(msg.subExpressionStyles)]

postToUI(b, msg) == [b EXCEPT !.toUI = Append(@, msg)]

\* the selected node carries both texSource and renderOptions plugin data
HasData(b, sel) == sel \in DOMAIN b.canvas /\ b.canvas[sel].texSource /= ""

checkSelectionAndLoadData(b) ==
    IF HasData(b, b.selection)
    THEN postToUI([b EXCEPT !.currentNodeWithData = b.selection],
                  [type |-> "loadNodeData",
                   texSource |-> b.canvas[b.selection].texSource,
                   renderOptions |-> b.canvas[b.selection].renderOptions,
                   nodeId |-> b.selection])
    ELSE postToUI([b EXCEPT !.currentNodeWithData = Null], [type |-> "clearNodeData"])

\* the selectionchange listener of setupEventListeners
onSelectionChange(b) ==
    IF b.selection = "none"
    THEN postToUI([b EXCEPT !.currentNodeWithData = Null], [type |-> "clearNodeData"])
    ELSE checkSelectionAndLoadData(b)

\* createOrUpdateNode; the artifacts of the model are intact groups (a
\* background rectangle and a rendered child).  Creating an artifact selects
\* it, and the selectionchange listener runs on that selection.
createOrUpdateNode(b, msg) ==
    LET data == [texSource |-> msg.tex, renderOptions |-> StoredOptions(msg)]
    IN  IF b.currentNodeWithData /= Null /\ msg.updateExisting
        THEN [b EXCEPT !.canvas[b.currentNodeWithData] = data]
        ELSE LET group == ArtifactIds[Cardinality(DOMAIN b.canvas) + 1]
             IN  onSelectionChange([b EXCEPT
                     !.canvas = [n \in DOMAIN b.canvas \cup {group} |->
                                    IF n = group THEN data ELSE b.canvas[n]],
                     !.currentNodeWithData = group,
                     !.selection = group])

\* handleMessage; the clientStorage write of saveUserPreferences is not read
\* again within the session and is not tracked
handleMessage(b, msg) ==
    IF msg.type = "saveUserPreferences" THEN b
    ELSE IF msg.type = "svg" THEN createOrUpdateNode(b, msg)
    ELSE b

sendInitializationData(b, userPreferences, theme) ==
    LET found == HasData(b, b.selection)
        selectionData ==
            IF found
            THEN [hasNode |-> TRUE,
                  nodeData |-> Some([texSource |-> b.canvas[b.selection].texSource,
                                     renderOptions |-> b.canvas[b.selection].renderOptions,
                                     nodeId |-> b.selection])]
            ELSE [hasNode |-> FALSE, nodeData |-> None]
        b1 == [b EXCEPT !.currentNodeWithData = IF found THEN b.selection ELSE Null,
                        !.initSent = TRUE]
    IN  postToUI(b1, [type |-> "initialize",
                      userPreferences |-> userPreferences,
                      selection |-> selectionData,
                      theme |-> theme])

\* the .catch of sendInitializationData: clientStorage.getAsync rejected
sendInitializationDataFailed(b, theme) ==
    postToUI([b EXCEPT !.currentNodeWithData = Null, !.initSent = TRUE],
             [type |-> "initialize",
              userPreferences |-> None,
              selection |-> [hasNode |-> FALSE, nodeData |-> None],
              theme |-> theme])

---------------------------------------------------------------------------
(* Values the environment supplies *)

TexValues == {"", "a"}
FontSizes == {12, 24}
UserColors == {"#FF0000"}
Themes == {"dark", "light"}
StyleExpressions == {"a"}
StyleOccurrences == {"", "2"}

\* the artifacts on the page when the plugin opens
InitialArtifacts == {"n1"}

\* an artifact placed in an earlier session
SavedArtifact ==
    [texSource |-> "b",
     renderOptions |-> [display |-> FALSE, fontSize |-> 12, fontColor |-> "#333333",
                        backgroundColor |-> "#FFFFFF",
                        subExpressionStyles |-> <<[expression |-> "b", color |-> "#DC3412",
                                                   occurrences |-> "1"]>>]]

\* what clientStorage may hold from earlier sessions
StoredPreferences ==
    LET base == [tex |-> "a", display |-> FALSE, fontSize |-> 12,
                 backgroundColor |-> "#FFFFFF", fontColor |-> "#333333",
                 subExpressionStyles |-> <<>>, draftState |-> None]
    IN  {None,
         Some(base),
         Some([base EXCEPT !.draftState = Some([tex |-> "a", subExpressionStyles |-> <<>>])])}

---------------------------------------------------------------------------
(* The two contexts and their commit *)

FE == [state |-> state, updateTimer |-> updateTimer, timeouts |-> timeouts,
       coalesced |-> coalesced,
       saveTimer |-> saveTimer,
       initializationResolver |-> initializationResolver,
       isInitializing |-> isInitializing, pendingReset |-> pendingReset,
       output |-> output, inflight |-> inflight, microtasks |-> microtasks,
       toHost |-> toHost, toStorage |-> None]

BE == [canvas |-> canvas, selection |-> selection,
       currentNodeWithData |-> currentNodeWithData, initSent |-> initSent, toUI |-> toUI]

\* no tree is being matched
MatcherIdle ==
    /\ tree = None
    /\ subtree = None
    /\ matches = None
    /\ sortedMatches = None
    /\ occurrences = None
    /\ painted = {}
    /\ reported = None

\* no style list is being applied
StylingIdle ==
    /\ styleList = <<>>
    /\ fill = <<>>
    /\ shown = {}
    /\ runs = 0

\* no color is being expanded
ColorIdle ==
    /\ colorInput = <<>>
    /\ expanded = None
    /\ expandedAgain = None

\* the selection walk is not exercised
SelectionIdle ==
    /\ ancestry = <<>>
    /\ selected = 0

CommitFE(f) ==
    /\ state' = f.state
    /\ updateTimer' = f.updateTimer
    /\ timeouts' = f.timeouts
    /\ coalesced' = f.coalesced
    /\ saveTimer' = f.saveTimer
    /\ initializationResolver' = f.initializationResolver
    /\ isInitializing' = f.isInitializing
    /\ pendingReset' = f.pendingReset
    /\ output' = f.output
    /\ inflight' = f.inflight
    /\ microtasks' = f.microtasks
    /\ toHost' = f.toHost
    /\ sentFor' = IF Len(f.toHost) > Len(toHost)
                  THEN Append(sentFor, state.currentNodeId) ELSE sentFor
    /\ toStorage' = f.toStorage
    /\ UNCHANGED <<placedAs, apartVars>>

CommitBE(b) ==
    /\ canvas' = b.canvas
    /\ selection' = b.selection
    /\ currentNodeWithData' = b.currentNodeWithData
    /\ initSent' = b.initSent
    /\ toUI' = b.toUI
    /\ UNCHANGED apartVars

backendVars == <<canvas, selection, currentNodeWithData, initSent>>
history == <<loadedOver, committed, cleared>>
frontendVars == <<state, updateTimer, timeouts, coalesced, saveTimer,
                  initializationResolver, isInitializing, pendingReset, output,
                  inflight, microtasks>>

\* the messages posted since the edit grow by what the step posts
Track(f) ==
    sinceEdit' = IF sinceEdit /= None /\ Len(f.toHost) > Len(toHost)
                 THEN Some(Append(Get(sinceEdit), f.toHost[Len(f.toHost)]))
                 ELSE sinceEdit

\* a macrotask of the UI may start: no promise continuation is queued, and
\* the model has room for one more typesetting call and for the posts
UIReady(posts) ==
    /\ microtasks = <<>>
    /\ Cardinality(inflight) < MaxInFlight
    /\ Len(toHost) + posts <= MaxQueue

\* the session explores MaxEvents user events, of which at most MaxEdits in
\* the UI and at most MaxSelChanges on the canvas
Budget(used, max) == used < max /\ edits + selChanges < MaxEvents

UserEvent(f) ==
    /\ UIReady(0)
    /\ Budget(edits, MaxEdits)
    /\ edits' = edits + 1
    /\ CommitFE(f)
    /\ sinceEdit' = IF /\ state.mode = "edit" /\ ~state.isLoadingNodeData
                       /\ f.inflight /= inflight
                    THEN Some(<<>>) ELSE None
    /\ loadedOver' = None
    /\ cleared' = None
    /\ UNCHANGED <<backendVars, toUI, selChanges, committed>>

WithOptions(f, options) == updateState(f, [renderOptions |-> options])

---------------------------------------------------------------------------
(* Initial state: the frontend after the synchronous part of initialize(),  *)
(* the backend after initialize() or handleResetDefaults()                  *)

InitialState(theme) ==
    [renderOptions |-> [tex |-> DefaultExample,
                        display |-> DEFAULT_RENDER_OPTIONS.display,
                        fontSize |-> DEFAULT_RENDER_OPTIONS.fontSize,
                        backgroundColor |-> Hash(THEME_DEFAULTS(theme).background),
                        fontColor |-> Hash(THEME_DEFAULTS(theme).font),
                        subExpressionStyles |-> <<>>],
     theme |-> theme,
     mode |-> "create",
     currentNodeId |-> Null,
     lastRenderedTex |-> None,
     lastRenderedDisplay |-> None,
     currentSVGWrapper |-> None,
     isLoadingNodeData |-> FALSE,
     draftState |-> None]

Init ==
    /\ state = InitialState("dark")
    /\ updateTimer = 0
    /\ timeouts = {}
    /\ coalesced = 0
    /\ saveTimer = FALSE
    /\ initializationResolver = TRUE
    /\ isInitializing = TRUE
    /\ pendingReset = FALSE
    /\ output = <<>>
    /\ inflight = {}
    /\ microtasks = <<>>
    /\ toHost = <<>>
    /\ sentFor = <<>>
    /\ placedAs = Null
    /\ sinceEdit = None
    /\ toStorage = None
    /\ canvas = [n \in InitialArtifacts |-> SavedArtifact]
    /\ selection \in {"none", "n1"}
    /\ currentNodeWithData = Null
    /\ \/ /\ initSent = FALSE
          /\ toUI = <<>>
       \/ /\ initSent = TRUE
          /\ \E theme \in Themes :
                toUI = <<[type |-> "initialize", userPreferences |-> None,
                          selection |-> [hasNode |-> FALSE, nodeData |-> None],
                          theme |-> theme],
                         [type |-> "resetToDefaults"]>>
    /\ edits = 0
    /\ selChanges = 0
    /\ loadedOver = None
    /\ committed = "no"
    /\ cleared = None
    /\ MatcherIdle /\ StylingIdle /\ ColorIdle /\ SelectionIdle

---------------------------------------------------------------------------
(* User events in the UI *)

Options == state.renderOptions
Styles == state.renderOptions.subExpressionStyles

\* the input listener of the TeX text area
TexInput(t) ==
    /\ t /= Options.tex
    /\ UserEvent(convert(WithOptions(FE, [Options EXCEPT !.tex = t])))

\* the change listener of the display checkbox
DisplayChange ==
    UserEvent(convert(WithOptions(FE, [Options EXCEPT !.display = ~@])))

\* the input listener of the font size field
FontSizeInput(v) ==
    /\ v /= Options.fontSize
    /\ UserEvent(convert(WithOptions(FE, [Options EXCEPT !.fontSize = v])))

\* setupColorInputs / onColorTextChange for the background color
BackgroundColorInput(c) ==
    /\ c /= Options.backgroundColor
    /\ UserEvent(convert(WithOptions(FE, [Options EXCEPT !.backgroundColor = c])))

\* setupColorInputs / onColorTextChange for the font color
FontColorInput(c) ==
    /\ c /= Options.fontColor
    /\ UserEvent(convert(WithOptions(FE, [Options EXCEPT !.fontColor = c])))

\* SubExpressionStyles.updateStyles
updateStyles(f, styles) ==
    WithOptions(f, [f.state.renderOptions EXCEPT !.subExpressionStyles = styles])

\* SubExpressionStyles.onAdd
StyleAdd ==
    /\ Len(Styles) < MaxStyles
    /\ UserEvent(convert(updateStyles(FE,
            Append(Styles, [expression |-> "",
                            color |-> getNextSubExpressionColor(state.theme, Len(Styles)),
                            occurrences |-> ""]))))

\* SubExpressionStyles.onRemove
StyleRemove(i) ==
    UserEvent(convert(updateStyles(FE,
        SubSeq(Styles, 1, i - 1) \o SubSeq(Styles, i + 1, Len(Styles)))))

\* the input listener of a row's expression field: onUpdate, then convert
StyleExpressionInput(i, e) ==
    /\ e /= Styles[i].expression
    /\ UserEvent(convert(updateStyles(FE, [Styles EXCEPT ![i].expression = e])))

\* the input listener of a row's color picker: onUpdate, then the direct
\* styling update
StyleColorPickerInput(i, c) ==
    /\ c /= Styles[i].color
    /\ UserEvent(updateSubExpressionStylesDirectly(
            updateStyles(FE, [Styles EXCEPT ![i].color = c])))

\* the change listener of a row's color picker: onUpdate, then convert
StyleColorPickerChange(i, c) ==
    UserEvent(convert(updateStyles(FE, [Styles EXCEPT ![i].color = c])))

\* the listeners of a row's occurrences field: onUpdate, then convert
StyleOccurrencesInput(i, o) ==
    /\ o /= Styles[i].occurrences
    /\ UserEvent(convert(updateStyles(FE, [Styles EXCEPT ![i].occurrences = o])))

\* the place button
PlaceClick ==
    /\ UIReady(1)
    /\ Budget(edits, MaxEdits)
    /\ edits' = edits + 1
    /\ CommitFE(placeClicked(FE))
    /\ sinceEdit' = None
    /\ loadedOver' = None
    /\ cleared' = None
    /\ committed' = IF prepareMessageData(FE, FALSE) = None THEN committed
                    ELSE IF state.draftState = None THEN "placed" ELSE "placedOverDraft"
    /\ UNCHANGED <<backendVars, toUI, selChanges>>

---------------------------------------------------------------------------
(* Event loop of the UI *)

\* a message event from the backend
UIReceive ==
    /\ UIReady(0)
    /\ toUI /= <<>>
    /\ CommitFE(onMessage(FE, Head(toUI)))
    /\ sinceEdit' = None
    /\ toUI' = Tail(toUI)
    /\ LET message == Head(toUI)
       IN  /\ loadedOver' =
                CASE message.type = "loadNodeData"
                     /\ state.mode = "create" /\ state.draftState = None ->
                        Some(state.renderOptions)
                  [] message.type = "clearNodeData" -> None
                  [] OTHER -> loadedOver
           /\ committed' =
                CASE message.type = "loadNodeData" /\ committed = "placed"
                     /\ message.nodeId \notin InitialArtifacts -> "loaded"
                  [] message.type = "clearNodeData" -> "no"
                  [] OTHER -> committed
           /\ cleared' =
                IF message.type = "clearNodeData"
                THEN Some([currentNodeId |-> state.currentNodeId,
                           draftState |-> state.draftState,
                           renderOptions |-> state.renderOptions,
                           timeouts |-> timeouts,
                           loadedOver |-> loadedOver,
                           committed |-> committed])
                ELSE None
    /\ UNCHANGED <<backendVars, edits, selChanges>>

\* the 1000 ms timeout of waitForInitializationData
InitTimeoutFires ==
    /\ UIReady(0)
    /\ initializationResolver
    /\ CommitFE(initTimeoutFired(FE))
    /\ sinceEdit' = None
    /\ UNCHANGED <<backendVars, toUI, edits, selChanges, history>>

\* the next queued promise continuation
RunMicrotask ==
    /\ microtasks /= <<>>
    /\ LET f == [FE EXCEPT !.microtasks = Tail(@)]
       IN  \/ /\ Head(microtasks) = "loadThen"
              /\ CommitFE(loadThen(f)) /\ Track(loadThen(f))
           \/ /\ Head(microtasks) = "initThen"
              /\ Cardinality(inflight) < MaxInFlight
              /\ CommitFE(initThen(f)) /\ Track(initThen(f))
    /\ UNCHANGED <<backendVars, toUI, edits, selChanges, history>>

\* the typesetting engine resolves call r
TypesetResolve(r) ==
    /\ CommitFE(renderResolved(FE, r))
    /\ Track(renderResolved(FE, r))
    /\ UNCHANGED <<backendVars, toUI, edits, selChanges, history>>

\* the typesetting engine is unavailable or rejects call r
TypesetReject(r) ==
    /\ CommitFE(renderRejected(FE, r))
    /\ sinceEdit' = None
    /\ UNCHANGED <<backendVars, toUI, edits, selChanges, history>>

\* the 300 ms timer of debouncedUpdate fires
SyncTimerFires(h) ==
    /\ UIReady(1)
    /\ CommitFE(sendUpdateToFigma([FE EXCEPT !.timeouts = @ \ {h}]))
    /\ Track(sendUpdateToFigma([FE EXCEPT !.timeouts = @ \ {h}]))
    /\ UNCHANGED <<backendVars, toUI, edits, selChanges, history>>

\* the 500 ms timer of the preference subscription fires
SaveTimerFires ==
    /\ UIReady(0)
    /\ saveTimer
    /\ CommitFE(saveUserPreferences([FE EXCEPT !.saveTimer = FALSE]))
    /\ UNCHANGED sinceEdit
    /\ UNCHANGED <<backendVars, toUI, edits, selChanges, history>>

---------------------------------------------------------------------------
(* Backend events *)

\* clientStorage.getAsync settles and the initialize message is posted
SendInitializationData(prefs, theme) ==
    /\ ~initSent
    /\ Len(toUI) < MaxQueue
    /\ CommitBE(sendInitializationData(BE, prefs, theme))
    /\ toStorage' = None
    /\ UNCHANGED <<frontendVars, toHost, sentFor, placedAs, sinceEdit, edits, selChanges, history>>

\* clientStorage.getAsync rejects and the initialize message is posted
SendInitializationDataFailed(theme) ==
    /\ ~initSent
    /\ Len(toUI) < MaxQueue
    /\ CommitBE(sendInitializationDataFailed(BE, theme))
    /\ toStorage' = None
    /\ UNCHANGED <<frontendVars, toHost, sentFor, placedAs, sinceEdit, edits, selChanges, history>>

\* the user changes the selection on the canvas
SelectionChange(sel) ==
    /\ sel /= selection
    /\ Budget(selChanges, MaxSelChanges)
    /\ Len(toUI) < MaxQueue
    /\ selChanges' = selChanges + 1
    /\ CommitBE(onSelectionChange([BE EXCEPT !.selection = sel]))
    /\ toStorage' = None
    /\ UNCHANGED <<frontendVars, toHost, sentFor, placedAs, sinceEdit, edits, history>>

\* figma.ui.onmessage: the backend handles the next message of the UI
BackendReceive ==
    /\ toHost /= <<>>
    /\ Len(toUI) < MaxQueue
    /\ LET b == handleMessage(BE, Head(toHost))
       IN  /\ Cardinality(DOMAIN b.canvas) <= MaxArtifacts
           /\ CommitBE(b)
    /\ toHost' = Tail(toHost)
    /\ sentFor' = Tail(sentFor)
    /\ placedAs' = IF Head(toHost).type = "svg" /\ ~Head(toHost).updateExisting
                   THEN handleMessage(BE, Head(toHost)).currentNodeWithData
                   ELSE placedAs
    /\ toStorage' = None
    /\ UNCHANGED sinceEdit
    /\ UNCHANGED <<frontendVars, edits, selChanges, history>>

---------------------------------------------------------------------------

Next ==
    \/ \E t \in TexValues : TexInput(t)
    \/ DisplayChange
    \/ \E v \in FontSizes : FontSizeInput(v)
    \/ \E c \in UserColors : BackgroundColorInput(c)
    \/ \E c \in UserColors : FontColorInput(c)
    \/ StyleAdd
    \/ \E i \in 1..Len(Styles) : StyleRemove(i)
    \/ \E i \in 1..Len(Styles), e \in StyleExpressions : StyleExpressionInput(i, e)
    \/ \E i \in 1..Len(Styles), c \in UserColors : StyleColorPickerInput(i, c)
    \/ \E i \in 1..Len(Styles), c \in UserColors : StyleColorPickerChange(i, c)
    \/ \E i \in 1..Len(Styles), o \in StyleOccurrences : StyleOccurrencesInput(i, o)
    \/ PlaceClick
    \/ UIReceive
    \/ InitTimeoutFires
    \/ RunMicrotask
    \/ \E r \in inflight : TypesetResolve(r)
    \/ \E r \in inflight : TypesetReject(r)
    \/ \E h \in timeouts : SyncTimerFires(h)
    \/ SaveTimerFires
    \/ \E prefs \in StoredPreferences, theme \in Themes : SendInitializationData(prefs, theme)
    \/ \E theme \in Themes : SendInitializationDataFailed(theme)
    \/ \E sel \in {"none", "other"} \cup DOMAIN canvas : SelectionChange(sel)
    \/ BackendReceive

Spec == Init /\ [][Next]_vars

---------------------------------------------------------------------------
(* Tree matcher (mathRenderer.ts)                                           *)
(*                                                                          *)
(* An element is [tagName, dataMmlNode, dataC, children]; an attribute that *)
(* is absent is Null, which is what getAttribute returns for it.  A node of *)
(* the rendered tree is named by its path, the child indices from the root. *)

\* bounds of the trees and of the occurrences strings
MaxChildren == 2
MaxInner == 1
MaxOccurrences == 2

SeqsUpTo(S, n) == UNION {[1..k -> S] : k \in 0..n}

Element(tagName, dataMmlNode, dataC, children) ==
    [tagName |-> tagName, dataMmlNode |-> dataMmlNode, dataC |-> dataC,
     children |-> children]

\* <use data-c=...> glyph references, one of them without the attribute
Glyphs == {Element("use", Null, c, <<>>) : c \in {"1D44E", "1D44F", Null}}

\* <g data-mml-node=...> groups over glyphs
Groups == {Element("g", m, Null, ch) : m \in {"mi", "math"}, ch \in SeqsUpTo(Glyphs, MaxInner)}

MathNode(children) == Element("g", "math", Null, children)

\* svgElement.querySelector('[data-mml-node="math"]') of a rendered text
MainTrees == {MathNode(ch) : ch \in SeqsUpTo(Glyphs \cup Groups, MaxChildren) \ {<<>>}}

\* the same for a rendered sub-expression, which may render to no element
ReferenceTrees == {MathNode(ch) : ch \in SeqsUpTo(Glyphs \cup Groups, MaxChildren)}

RECURSIVE Paths(_)
Paths(node) ==
    {<<>>} \cup UNION {{<<i>> \o p : p \in Paths(node.children[i])} :
                        i \in 1..Len(node.children)}

RECURSIVE At(_, _)
At(node, path) ==
    IF path = <<>> THEN node ELSE At(node.children[Head(path)], Tail(path))

\* the nodes of a tree in document order, named from path on
RECURSIVE Preorder(_, _)
Preorder(node, path) ==
    LET RECURSIVE below(_)
        below(i) == IF i > Len(node.children) THEN <<>>
                    ELSE Preorder(node.children[i], Append(path, i)) \o below(i + 1)
    IN  <<path>> \o below(1)

\* nodeMatches of findSubtreeMatches
RECURSIVE nodeMatches(_, _)
nodeMatches(node, subtreeNode) ==
    IF node.tagName /= subtreeNode.tagName THEN FALSE
    ELSE IF node.dataMmlNode /= subtreeNode.dataMmlNode THEN FALSE
    ELSE IF node.dataC /= Null /\ node.dataC /= subtreeNode.dataC THEN FALSE
    ELSE IF Len(node.children) /= Len(subtreeNode.children) THEN FALSE
    ELSE \A i \in 1..Len(node.children) :
            nodeMatches(node.children[i], subtreeNode.children[i])

\* traverse that checks the children of node and does not descend
traverse_rootOnly(node, path, ref) ==
    LET children == node.children
        RECURSIVE while(_, _)
        while(currentChild, currentNode) ==
            IF /\ currentNode <= Len(ref.children)
               /\ currentChild <= Len(children)
               /\ nodeMatches(children[currentChild], ref.children[currentNode])
            THEN <<Append(path, currentChild)>> \o while(currentChild + 1, currentNode + 1)
            ELSE <<>>
        check(i) ==
            LET deep == IF nodeMatches(children[i], ref)
                        THEN <<<<Append(path, i)>>>> ELSE <<>>
                potentialMatch == while(i, 1)
            IN  IF Len(potentialMatch) = Len(ref.children)
                THEN Append(deep, potentialMatch) ELSE deep
        RECURSIVE forEachCheck(_)
        forEachCheck(i) ==
            IF i > Len(children) THEN <<>> ELSE check(i) \o forEachCheck(i + 1)
    IN  forEachCheck(1)

\* traverse of findSubtreeMatches: the matches pushed while visiting node and
\* then its descendants.  Nodes of the reference are named by their index
\* among subtree's children, 0 for null (lastMatch, subtree.lastChild).
RECURSIVE traverse(_, _, _)
traverse(node, path, ref) ==
    LET children == node.children
        RECURSIVE while(_, _)
        while(currentChild, currentNode) ==
            IF /\ currentNode <= Len(ref.children)
               /\ currentChild <= Len(children)
               /\ nodeMatches(children[currentChild], ref.children[currentNode])
            THEN <<Append(path, currentChild)>> \o while(currentChild + 1, currentNode + 1)
            ELSE <<>>
        check(i) ==
            LET deep == IF nodeMatches(children[i], ref)
                        THEN <<<<Append(path, i)>>>> ELSE <<>>
                potentialMatch == while(i, 1)
                lastMatch == Len(potentialMatch)
                lastChild == Len(ref.children)
            IN  IF lastMatch = lastChild THEN Append(deep, potentialMatch) ELSE deep
        RECURSIVE forEachCheck(_)
        forEachCheck(i) ==
            IF i > Len(children) THEN <<>> ELSE check(i) \o forEachCheck(i + 1)
        RECURSIVE forEachTraverse(_)
        forEachTraverse(i) ==
            IF i > Len(children) THEN <<>>
            ELSE traverse(children[i], Append(path, i), ref) \o forEachTraverse(i + 1)
    IN  forEachCheck(1) \o forEachTraverse(1)

findSubtreeMatches(root, ref) == traverse(root, <<>>, ref)

\* a.compareDocumentPosition(b) & DOCUMENT_POSITION_FOLLOWING: b follows a
\* when a contains b or when a comes first in the tree
RECURSIVE Following(_, _)
Following(a, b) ==
    IF a = <<>> THEN b /= <<>>
    ELSE IF b = <<>> THEN FALSE
    ELSE IF Head(a) = Head(b) THEN Following(Tail(a), Tail(b))
    ELSE Head(a) < Head(b)

\* compareNodePosition on two nodes of one tree; a node compared with itself
\* reaches the bounding-box fallback, which yields 0
compareNodePosition(nodeA, nodeB) ==
    IF Following(nodeA, nodeB) THEN -1
    ELSE IF Following(nodeB, nodeA) THEN 1
    ELSE 0

\* the comparator of sortMatchesByPosition
compareMatches(a, b) ==
    IF Len(a) = 0 \/ Len(b) = 0 THEN Len(a) - Len(b)
    ELSE compareNodePosition(a[1], b[1])

\* sortMatchesByPosition returning the matches as it was given them
sortMatchesByPosition_unsorted(ms) == ms

\* sortMatchesByPosition: Array.prototype.sort, which is stable
RECURSIVE sortMatchesByPosition(_)
sortMatchesByPosition(ms) ==
    IF ms = <<>> THEN <<>>
    ELSE LET front == sortMatchesByPosition(SubSeq(ms, 1, Len(ms) - 1))
             m == ms[Len(ms)]
             keep == {i \in 0..Len(front) :
                        \A j \in 1..i : compareMatches(front[j], m) <= 0}
             at == CHOOSE i \in keep : \A j \in keep : j <= i
         IN  SubSeq(front, 1, at) \o <<m>> \o SubSeq(front, at + 1, Len(front))

\* getMatchesByTex returning the matches in the order they were found
getMatchesByTex_unsorted(root, ref) == findSubtreeMatches(root, ref)

\* getMatchesByTex once both math nodes are found
getMatchesByTex(root, ref) == sortMatchesByPosition(findSubtreeMatches(root, ref))

---------------------------------------------------------------------------
(* Sub-expression styling applier (mathRenderer.ts)                         *)
(* Strings are sequences of characters.                                     *)

Digits == <<"0", "1", "2", "3", "4", "5", "6", "7", "8", "9">>

IsDigit(ch) == \E d \in 1..10 : Digits[d] = ch

DigitValue(ch) == (CHOOSE d \in 1..10 : Digits[d] = ch) - 1

\* String.prototype.trim
RECURSIVE TrimChars(_)
TrimChars(str) ==
    IF str = <<>> THEN <<>>
    ELSE IF Head(str) = " " THEN TrimChars(Tail(str))
    ELSE IF str[Len(str)] = " " THEN TrimChars(SubSeq(str, 1, Len(str) - 1))
    ELSE str

\* String.prototype.split(',')
RECURSIVE Split(_)
Split(str) ==
    IF \A i \in 1..Len(str) : str[i] /= "," THEN <<str>>
    ELSE LET at == CHOOSE i \in 1..Len(str) :
                        str[i] = "," /\ \A j \in 1..(i - 1) : str[j] /= ","
         IN  <<SubSeq(str, 1, at - 1)>> \o Split(SubSeq(str, at + 1, Len(str)))

\* parseInt(idxStr, 10): optional sign, then the leading digits; None is NaN
parseInt(idxStr) ==
    LET str == TrimChars(idxStr)
        negative == str /= <<>> /\ Head(str) = "-"
        body == IF str /= <<>> /\ Head(str) \in {"-", "+"} THEN Tail(str) ELSE str
        n == CHOOSE k \in 0..Len(body) :
                /\ \A j \in 1..k : IsDigit(body[j])
                /\ k < Len(body) => ~IsDigit(body[k + 1])
        RECURSIVE value(_)
        value(k) == IF k = 0 THEN 0 ELSE 10 * value(k - 1) + DigitValue(body[k])
    IN  IF n = 0 THEN None
        ELSE Some(IF negative THEN 0 - value(n) ELSE value(n))

\* applyColorToNodeAndNestedGroups: the node and the groups nested in it,
\* error nodes excepted
applyColorToNodeAndNestedGroups(root, node) ==
    {node} \cup {node \o p : p \in {q \in Paths(At(root, node)) \ {<<>>} :
                                      /\ At(root, node \o q).tagName = "g"
                                      /\ At(root, node \o q).dataMmlNode /= "merror"}}

\* the nodes painted for the matches at the given indices of found
PaintMatches(root, found, indices) ==
    UNION {UNION {applyColorToNodeAndNestedGroups(root, found[i][k]) :
                    k \in 1..Len(found[i])} : i \in indices}

\* the for loop over occurrenceIndices: the first error ends it
RECURSIVE ParseOccurrences(_, _, _)
ParseOccurrences(occurrenceIndices, matchCount, parsedIndices) ==
    IF occurrenceIndices = <<>>
    THEN [hasError |-> FALSE, error |-> None, parsedIndices |-> parsedIndices]
    ELSE LET idx == parseInt(Head(occurrenceIndices))
         IN  IF idx = None
             THEN [hasError |-> TRUE, error |-> Some("invalidOccurrence"),
                   parsedIndices |-> parsedIndices]
             ELSE IF Get(idx) < 1 \/ Get(idx) - 1 >= matchCount
             THEN [hasError |-> TRUE, error |-> Some("outOfRange"),
                   parsedIndices |-> parsedIndices]
             ELSE ParseOccurrences(Tail(occurrenceIndices), matchCount,
                                   parsedIndices \cup {Get(idx)})

\* applySubExpressionColors painting the occurrences parsed before an error
applySubExpressionColors_paintsParsed(root, ref, occurrenceString) ==
    LET found == getMatchesByTex(root, ref)
        occurrenceStr == TrimChars(occurrenceString)
    IN  IF found = <<>> THEN [painted |-> {}, reported |-> Some("notFound")]
        ELSE IF occurrenceStr = <<>>
        THEN [painted |-> PaintMatches(root, found, 1..Len(found)), reported |-> None]
        ELSE LET pieces == Split(occurrenceStr)
                 occurrenceIndices == SelectSeq([i \in 1..Len(pieces) |-> TrimChars(pieces[i])],
                                                LAMBDA p : p /= <<>>)
                 loop == ParseOccurrences(occurrenceIndices, Len(found), {})
             IN  [painted |-> PaintMatches(root, found, loop.parsedIndices),
                  reported |-> loop.error]

\* applySubExpressionColors for one style entry with a non-blank expression:
\* the nodes it paints and the error it shows through showError
applySubExpressionColors(root, ref, occurrenceString) ==
    LET found == getMatchesByTex(root, ref)
        occurrenceStr == TrimChars(occurrenceString)
    IN  IF found = <<>> THEN [painted |-> {}, reported |-> Some("notFound")]
        ELSE IF occurrenceStr = <<>>
        THEN [painted |-> PaintMatches(root, found, 1..Len(found)), reported |-> None]
        ELSE LET pieces == Split(occurrenceStr)
                 occurrenceIndices == SelectSeq([i \in 1..Len(pieces) |-> TrimChars(pieces[i])],
                                                LAMBDA p : p /= <<>>)
                 loop == ParseOccurrences(occurrenceIndices, Len(found), {})
             IN  IF loop.hasError
                 THEN [painted |-> {}, reported |-> loop.error]
                 ELSE [painted |-> PaintMatches(root, found, loop.parsedIndices),
                       reported |-> None]

---------------------------------------------------------------------------
(* The matcher and the applier run on the trees of the typesetting engine   *)

\* what a user may type between two commas of the occurrences field
Pieces == {<<>>, <<"0">>, <<"1">>, <<" ", "3">>, <<"x">>, <<"1", "x">>}

RECURSIVE Join(_)
Join(pieces) ==
    IF Len(pieces) = 1 THEN pieces[1] ELSE pieces[1] \o <<",">> \o Join(Tail(pieces))

OccurrenceStrings == {Join(ps) : ps \in SeqsUpTo(Pieces, MaxOccurrences) \ {<<>>}}

\* the session is not running: the frontend as constructed, the backend idle
SessionIdle ==
    /\ state = InitialState("dark")
    /\ updateTimer = 0
    /\ timeouts = {}
    /\ coalesced = 0
    /\ saveTimer = FALSE
    /\ initializationResolver = TRUE
    /\ isInitializing = TRUE
    /\ pendingReset = FALSE
    /\ output = <<>>
    /\ inflight = {}
    /\ microtasks = <<>>
    /\ toHost = <<>>
    /\ sentFor = <<>>
    /\ placedAs = Null
    /\ sinceEdit = None
    /\ toStorage = None
    /\ toUI = <<>>
    /\ canvas = [n \in InitialArtifacts |-> SavedArtifact]
    /\ selection = "none"
    /\ currentNodeWithData = Null
    /\ initSent = FALSE
    /\ edits = 0
    /\ selChanges = 0
    /\ loadedOver = None
    /\ committed = "no"
    /\ cleared = None

sessionVars == <<frontendVars, backendVars, history, toHost, sentFor, placedAs, sinceEdit,
                 toStorage, toUI,
                 edits, selChanges>>

\* a text and a sub-expression have been typeset
MatcherInit ==
    /\ SessionIdle
    /\ tree \in {Some(t) : t \in MainTrees}
    /\ subtree \in {Some(t) : t \in ReferenceTrees}
    /\ matches = None
    /\ sortedMatches = None
    /\ occurrences = None
    /\ painted = {}
    /\ reported = None
    /\ StylingIdle /\ ColorIdle /\ SelectionIdle

\* findSubtreeMatches(tree, match) in getMatchesByTex
FindSubtreeMatches ==
    /\ matches = None
    /\ matches' = Some(findSubtreeMatches(Get(tree), Get(subtree)))
    /\ UNCHANGED <<sessionVars, tree, subtree, sortedMatches, occurrences, painted, reported>>
    /\ UNCHANGED <<stylingVars, colorVars, selectionVars>>

\* return sortMatchesByPosition(matches) in getMatchesByTex
SortMatchesByPosition ==
    /\ matches /= None /\ sortedMatches = None
    /\ sortedMatches' = Some(sortMatchesByPosition(Get(matches)))
    /\ UNCHANGED <<sessionVars, tree, subtree, matches, occurrences, painted, reported>>
    /\ UNCHANGED <<stylingVars, colorVars, selectionVars>>

\* applySubExpressionColors on a style entry of the given occurrences string
ApplySubExpressionColors(occurrenceString) ==
    /\ sortedMatches /= None /\ occurrences = None
    /\ occurrences' = Some(occurrenceString)
    /\ LET applied == applySubExpressionColors(Get(tree), Get(subtree), occurrenceString)
       IN  /\ painted' = applied.painted
           /\ reported' = applied.reported
    /\ UNCHANGED <<sessionVars, tree, subtree, matches, sortedMatches>>
    /\ UNCHANGED <<stylingVars, colorVars, selectionVars>>

MatcherNext ==
    \/ FindSubtreeMatches
    \/ SortMatchesByPosition
    \/ \E occurrenceString \in OccurrenceStrings \cup {<<>>} :
            ApplySubExpressionColors(occurrenceString)

MatcherSpec == MatcherInit /\ [][MatcherNext]_vars

---------------------------------------------------------------------------
(* Styling of a rendered tree: base color, error nodes, the style list      *)
(* (mathRenderer.ts, and the restyling handlers of the frontend)            *)

\* bound of the style list
MaxRows == 2

\* an error node as the engine renders it: background rectangle and text
ErrorNode ==
    Element("g", "merror", Null,
            <<Element("rect", Null, Null, <<>>), Element("g", "mtext", Null, <<>>)>>)

GlyphA == Element("use", Null, "1D44E", <<>>)
GlyphB == Element("use", Null, "1D44F", <<>>)

StyledItems == {GlyphA, Element("g", "mi", Null, <<GlyphA>>), ErrorNode}

\* rendered texts, some with an error node
StyledTrees == {MathNode(ch) : ch \in SeqsUpTo(StyledItems, MaxChildren) \ {<<>>}}

\* what the expression field of a row renders to; None for a blank field
Expressions == {None} \cup {Some(MathNode(<<item>>)) : item \in StyledItems \cup {GlyphB}}

StyleEntries ==
    [expression : Expressions,
     color : {"#FF0000", "#0000FF"},
     occurrences : {<<>>, <<"1">>, <<"2">>, <<"x">>}]

\* the style lists of up to MaxRows rows
StyleLists == SeqsUpTo(StyleEntries, MaxRows)

\* options.fontColor of the styling runs
BaseFontColor == "#333333"

\* setSVGColor: fill of every g element, error nodes excepted
setSVGColor(root, fills, color) ==
    [p \in DOMAIN fills |->
        IF At(root, p).tagName = "g" /\ At(root, p).dataMmlNode /= "merror"
        THEN color ELSE fills[p]]

\* p comes before q in document order
Precedes(p, q) ==
    \E k \in 1..Len(q) :
        /\ \A j \in 1..(k - 1) : j <= Len(p) /\ p[j] = q[j]
        /\ Len(p) = k - 1 \/ (Len(p) >= k /\ p[k] < q[k])

\* errorNode.querySelector(selector): the first node below errorNode, in
\* document order, of the given tag and semantic node type; None when absent
QuerySelector(root, errorNode, tagName, dataMmlNode) ==
    LET hits == {p \in Paths(root) :
                    /\ Len(p) > Len(errorNode)
                    /\ SubSeq(p, 1, Len(errorNode)) = errorNode
                    /\ At(root, p).tagName = tagName
                    /\ At(root, p).dataMmlNode = dataMmlNode}
    IN  IF hits = {} THEN None
        ELSE Some(CHOOSE p \in hits : \A q \in hits \ {p} : Precedes(p, q))

\* styleErrorNodes: yellow background rectangle, red text group, red node
styleErrorNodes(root, fills) ==
    LET errorNodes == {p \in DOMAIN fills : At(root, p).dataMmlNode = "merror"}
    IN  [p \in DOMAIN fills |->
            IF \E e \in errorNodes : QuerySelector(root, e, "rect", Null) = Some(p)
            THEN "yellow"
            ELSE IF \E e \in errorNodes :
                        e = p \/ QuerySelector(root, e, "g", "mtext") = Some(p)
            THEN "red"
            ELSE fills[p]]

\* SubExpressionStyles.clearError(rowIndex, field)
clearError(errors, rowIndex, field) ==
    {e \in errors : ~(e.row = rowIndex /\ e.field = field)}

\* SubExpressionStyles.showError(rowIndex, field, message): the row's one
\* error element of the field takes the message
showError(errors, rowIndex, field, message) ==
    clearError(errors, rowIndex, field)
        \cup {[row |-> rowIndex, field |-> field, message |-> message]}

\* the forEach callback past its blank check: applied is what
\* applySubExpressionColors found for the entry; the matches it painted take
\* the entry's color, its error is shown, or the row's errors are cleared
styleEntry(acc, styleIndex, color, applied) ==
    [fill |-> [p \in DOMAIN acc.fill |->
                  IF p \in applied.painted THEN color ELSE acc.fill[p]],
     shown |-> IF applied.reported = None
               THEN clearError(clearError(acc.shown, styleIndex, "tex"),
                               styleIndex, "occurrence")
               ELSE showError(acc.shown, styleIndex,
                              IF applied.reported = Some("notFound")
                              THEN "tex" ELSE "occurrence",
                              Get(applied.reported))]

\* styles.forEach ending at the first entry that reports an error
RECURSIVE forEachStyle_stopsAtError(_, _, _, _)
forEachStyle_stopsAtError(root, list, styleIndex, acc) ==
    IF styleIndex > Len(list) THEN acc
    ELSE IF list[styleIndex].expression /= None
            /\ applySubExpressionColors(root, Get(list[styleIndex].expression),
                                        list[styleIndex].occurrences).reported /= None
    THEN styleEntry(acc, styleIndex, list[styleIndex].color,
                    applySubExpressionColors(root, Get(list[styleIndex].expression),
                                             list[styleIndex].occurrences))
    ELSE forEachStyle_stopsAtError(root, list, styleIndex + 1,
            IF list[styleIndex].expression = None THEN acc
            ELSE styleEntry(acc, styleIndex, list[styleIndex].color,
                    applySubExpressionColors(root, Get(list[styleIndex].expression),
                                             list[styleIndex].occurrences)))

\* styles.forEach of applySubExpressionColors from entry styleIndex on; acc
\* is the fill of the nodes and the errors shown so far
RECURSIVE forEachStyle(_, _, _, _)
forEachStyle(root, list, styleIndex, acc) ==
    IF styleIndex > Len(list) THEN acc
    ELSE forEachStyle(root, list, styleIndex + 1,
            IF list[styleIndex].expression = None THEN acc
            ELSE styleEntry(acc, styleIndex, list[styleIndex].color,
                    applySubExpressionColors(root, Get(list[styleIndex].expression),
                                             list[styleIndex].occurrences)))

\* applySubExpressionColors on a style list without clearAllErrors
applyStyles_keepsErrors(root, fills, errors, list) ==
    forEachStyle(root, list, 1, [fill |-> fills, shown |-> errors])

\* applySubExpressionColors on a style list: clearAllErrors, then every entry
applyStyles(root, fills, errors, list) ==
    forEachStyle(root, list, 1, [fill |-> fills, shown |-> {}])

\* the then-callback of typesetMath on the rendered node: base color, error
\* nodes, and the style list when it has entries
typesetStyling(root, fills, errors, list) ==
    IF list /= <<>>
    THEN applyStyles(root, styleErrorNodes(root, setSVGColor(root, fills, BaseFontColor)),
                     errors, list)
    ELSE [fill |-> styleErrorNodes(root, setSVGColor(root, fills, BaseFontColor)),
          shown |-> errors]

\* updateFontColor and updateSubExpressionStyles of updateStyling
restyle(root, fills, errors, list) ==
    applyStyles(root, styleErrorNodes(root, setSVGColor(root, fills, BaseFontColor)),
                errors, list)

\* a text has been typeset and the rows hold a style list
StylingInit ==
    /\ SessionIdle /\ ColorIdle /\ SelectionIdle
    /\ tree \in {Some(t) : t \in StyledTrees}
    /\ subtree = None
    /\ matches = None
    /\ sortedMatches = None
    /\ occurrences = None
    /\ painted = {}
    /\ reported = None
    /\ styleList \in StyleLists
    /\ fill = [p \in Paths(Get(tree)) |-> Null]
    /\ shown = {}
    /\ runs = 0

\* the styling run leaves its colors on the tree and its errors on the rows
Styled(done) == fill' = done.fill /\ shown' = done.shown

StylingFrame ==
    UNCHANGED <<sessionVars, tree, subtree, matches, sortedMatches, occurrences,
                painted, reported, colorVars, selectionVars>>

\* typesetMath resolves: the tree is colored and styled for the first time
TypesetStyling ==
    /\ runs = 0
    /\ runs' = 1
    /\ Styled(typesetStyling(Get(tree), fill, shown, styleList))
    /\ UNCHANGED styleList
    /\ StylingFrame

\* a row's expression field changes: onUpdate, then convert -> updateStyling
RowExpressionInput(rowIndex, expression) ==
    /\ runs = 1 /\ rowIndex \in 1..Len(styleList)
    /\ expression /= styleList[rowIndex].expression
    /\ runs' = 2
    /\ styleList' = [styleList EXCEPT ![rowIndex].expression = expression]
    /\ Styled(restyle(Get(tree), fill, clearError(shown, rowIndex, "tex"), styleList'))
    /\ StylingFrame

\* a row's occurrences field changes: onUpdate, then convert -> updateStyling
RowOccurrencesInput(rowIndex, occurrenceString) ==
    /\ runs = 1 /\ rowIndex \in 1..Len(styleList)
    /\ occurrenceString /= styleList[rowIndex].occurrences
    /\ runs' = 2
    /\ styleList' = [styleList EXCEPT ![rowIndex].occurrences = occurrenceString]
    /\ Styled(restyle(Get(tree), fill, clearError(shown, rowIndex, "occurrence"),
                      styleList'))
    /\ StylingFrame

\* a row's color picker changes: onUpdate, then the direct styling update
RowColorInput(rowIndex, color) ==
    /\ runs = 1 /\ rowIndex \in 1..Len(styleList)
    /\ color /= styleList[rowIndex].color
    /\ runs' = 2
    /\ styleList' = [styleList EXCEPT ![rowIndex].color = color]
    /\ Styled(applyStyles(Get(tree), fill, clearError(shown, rowIndex, "color"),
                          styleList'))
    /\ StylingFrame

\* a row is removed: onRemove, then convert -> updateStyling.  The rows that
\* stay keep their error elements, the last row goes.
RowRemove(rowIndex) ==
    /\ runs = 1 /\ rowIndex \in 1..Len(styleList)
    /\ runs' = 2
    /\ styleList' = SubSeq(styleList, 1, rowIndex - 1)
                        \o SubSeq(styleList, rowIndex + 1, Len(styleList))
    /\ Styled(restyle(Get(tree), fill, {e \in shown : e.row <= Len(styleList')},
                      styleList'))
    /\ StylingFrame

StylingNext ==
    \/ TypesetStyling
    \/ \E rowIndex \in 1..MaxRows :
        \/ \E expression \in Expressions : RowExpressionInput(rowIndex, expression)
        \/ \E occurrenceString \in {<<>>, <<"1">>, <<"2">>, <<"x">>} :
                RowOccurrencesInput(rowIndex, occurrenceString)
        \/ \E color \in {"#FF0000", "#0000FF"} : RowColorInput(rowIndex, color)
        \/ RowRemove(rowIndex)

StylingSpec == StylingInit /\ [][StylingNext]_vars

---------------------------------------------------------------------------
(* The selection listener of the backend and its walk up the ancestors      *)
(* (code.ts)                                                                *)

\* longest chain from the selected node up to the last ancestor below the page
MaxDepth == 3

\* selection changes of one behavior
MaxSelections == 2

\* renderOptions plugin data: absent, written by createOrUpdateNode, damaged
OptionStrings == {"", "{\"display\":false}", "{\"display\":"}

\* JSON.parse of the renderOptions plugin data; None when it throws
JSONParse(str) ==
    IF str = "{\"display\":false}" THEN Some([display |-> FALSE]) ELSE None

\* plugin data of one node
PluginData == [texSource : {"", "b"}, renderOptionsStr : OptionStrings]

\* the selected node and its ancestors below the page, nearest first; the
\* node at place i has id ArtifactIds[i]
Ancestries == SeqsUpTo(PluginData, MaxDepth) \ {<<>>}

\* the while loop of checkSelectionAndLoadData that gives up at the first
\* node whose options do not parse
RECURSIVE findNodeWithData_stopsAtParseError(_, _)
findNodeWithData_stopsAtParseError(chain, i) ==
    IF i > Len(chain) THEN None
    ELSE IF chain[i].texSource /= "" /\ chain[i].renderOptionsStr /= ""
    THEN IF JSONParse(chain[i].renderOptionsStr) /= None THEN Some(i) ELSE None
    ELSE findNodeWithData_stopsAtParseError(chain, i + 1)

\* the while loop of checkSelectionAndLoadData from the node at place i:
\* the place of the node whose data is loaded, None when the loop runs out
RECURSIVE findNodeWithData(_, _)
findNodeWithData(chain, i) ==
    IF i > Len(chain) THEN None
    ELSE IF /\ chain[i].texSource /= "" /\ chain[i].renderOptionsStr /= ""
            /\ JSONParse(chain[i].renderOptionsStr) /= None
    THEN Some(i)
    ELSE findNodeWithData(chain, i + 1)

\* the message the walk posts for the node it found
loadNodeDataMessage(chain, found) ==
    IF found = None THEN [type |-> "clearNodeData"]
    ELSE [type |-> "loadNodeData",
          texSource |-> chain[Get(found)].texSource,
          renderOptions |-> Get(JSONParse(chain[Get(found)].renderOptionsStr)),
          nodeId |-> ArtifactIds[Get(found)]]

\* the selectionchange listener with the full walk: the tracked node and
\* the message posted
selectionchange(count, chain) ==
    IF count = 1
    THEN [currentNodeWithData |->
              IF findNodeWithData(chain, 1) = None THEN Null
              ELSE ArtifactIds[Get(findNodeWithData(chain, 1))],
          message |-> loadNodeDataMessage(chain, findNodeWithData(chain, 1))]
    ELSE [currentNodeWithData |-> Null, message |-> [type |-> "clearNodeData"]]

SelectionInit ==
    /\ SessionIdle /\ MatcherIdle /\ StylingIdle /\ ColorIdle /\ SelectionIdle

\* the user selects count nodes; chain is the ancestry of a single one
SelectionChanged(count, chain) ==
    /\ selChanges < MaxSelections
    /\ selChanges' = selChanges + 1
    /\ selected' = count
    /\ ancestry' = chain
    /\ currentNodeWithData' = selectionchange(count, chain).currentNodeWithData
    /\ toUI' = Append(toUI, selectionchange(count, chain).message)
    /\ UNCHANGED <<frontendVars, canvas, selection, initSent, history, toHost, sentFor, placedAs, sinceEdit,
                   toStorage, edits, matcherVars, stylingVars, colorVars>>

SelectionNext ==
    \/ \E count \in {0, 2} : SelectionChanged(count, <<>>)
    \/ \E chain \in Ancestries : SelectionChanged(1, chain)

SelectionSpec == SelectionInit /\ [][SelectionNext]_vars

---------------------------------------------------------------------------
(* expandColor (utils)                                                      *)

\* longest string of hex digits given to expandColor
MaxDigits == 3

\* the hex digits of the inputs, both cases of the letters among them
HexChars == {"0", "9", "a", "c", "F"}

\* String.prototype.toUpperCase on one character
UpperChar(c) ==
    CASE c = "a" -> "A" [] c = "b" -> "B" [] c = "c" -> "C"
      [] c = "d" -> "D" [] c = "e" -> "E" [] c = "f" -> "F"
      [] OTHER -> c

toUpperCase(str) == [i \in 1..Len(str) |-> UpperChar(str[i])]

\* hex.replace(/^#/, '')
StripHash(str) == IF str /= <<>> /\ Head(str) = "#" THEN Tail(str) ELSE str

\* String.prototype.repeat
RECURSIVE Repeat(_, _)
Repeat(str, n) == IF n = 0 THEN <<>> ELSE str \o Repeat(str, n - 1)

\* expandColor without toUpperCase
expandColor_keepsCase(hex) ==
    IF hex = <<>> THEN <<>>
    ELSE IF Len(StripHash(hex)) = 1 THEN Repeat(StripHash(hex), 6)
    ELSE IF Len(StripHash(hex)) = 2 THEN Repeat(StripHash(hex), 3)
    ELSE IF Len(StripHash(hex)) = 3
    THEN [i \in 1..6 |-> StripHash(hex)[(i + 1) \div 2]]
    ELSE StripHash(hex)

\* cleaned.split('').map(c => c + c).join('')
DoubleEach(str) == [i \in 1..(2 * Len(str)) |-> str[(i + 1) \div 2]]

expandColor(hex) ==
    IF hex = <<>> THEN <<>>
    ELSE IF Len(toUpperCase(StripHash(hex))) = 1 THEN Repeat(toUpperCase(StripHash(hex)), 6)
    ELSE IF Len(toUpperCase(StripHash(hex))) = 2 THEN Repeat(toUpperCase(StripHash(hex)), 3)
    ELSE IF Len(toUpperCase(StripHash(hex))) = 3 THEN DoubleEach(toUpperCase(StripHash(hex)))
    ELSE toUpperCase(StripHash(hex))

\* the arguments: up to MaxDigits hex digits, with or without the # prefix,
\* the empty string and a lone # among them
ColorInputs ==
    SeqsUpTo(HexChars, MaxDigits) \cup {<<"#">> \o d : d \in SeqsUpTo(HexChars, MaxDigits)}

ColorInit ==
    /\ SessionIdle /\ MatcherIdle /\ StylingIdle /\ SelectionIdle
    /\ colorInput \in ColorInputs
    /\ expanded = None
    /\ expandedAgain = None

\* expandColor(hex)
ExpandColor ==
    /\ expanded = None
    /\ expanded' = Some(expandColor(colorInput))
    /\ UNCHANGED <<sessionVars, matcherVars, stylingVars, selectionVars,
                   colorInput, expandedAgain>>

\* expandColor on the result
ExpandColorAgain ==
    /\ expanded /= None /\ expandedAgain = None
    /\ expandedAgain' = Some(expandColor(Get(expanded)))
    /\ UNCHANGED <<sessionVars, matcherVars, stylingVars, selectionVars,
                   colorInput, expanded>>

ColorNext == ExpandColor \/ ExpandColorAgain

ColorSpec == ColorInit /\ [][ColorNext]_vars
---------------------------------------------------------------------------
(* Steps of the session, as the properties below recognise them *)

\* the UI handles a clearNodeData message (setupMessageListener)
ClearStep ==
    toUI /= <<>> /\ Head(toUI).type = "clearNodeData" /\ toUI' = Tail(toUI)

\* the UI handles an initialize message that names no node and carries
\* stored preferences with a draft (handleInitializationMessage)
InitWithDraftStep ==
    /\ toUI /= <<>> /\ toUI' = Tail(toUI)
    /\ Head(toUI).type = "initialize"
    /\ ~Head(toUI).selection.hasNode
    /\ IsSome(Head(toUI).userPreferences)
    /\ IsSome(Get(Head(toUI).userPreferences).draftState)

\* the place button posts the rendered expression
PlaceStep == edits' = edits + 1 /\ Len(toHost') = Len(toHost) + 1

\* debouncedUpdate ran: setTimeout handed out a new handle
ArmStep == updateTimer' /= updateTimer

\* the callback of the sync timer ran
FireStep == updateTimer' = updateTimer /\ \E h \in timeouts : timeouts' = timeouts \ {h}

\* a render chained by loadNodeData settled
LoadRenderSettles == \E r \in inflight : r.then = "load" /\ r \notin inflight'

---------------------------------------------------------------------------
(* Mode / draft controller: round trip of the draft *)

\* C1: draft round trip.  When a loadNodeData handled in create mode with no
\* draft is followed, with no user edit in between, by a clearNodeData, the
\* session is back in create mode with no tracked artifact, renderOptions
\* equal field for field to the options the load replaced, and no draft.
C1_DraftRoundTrip ==
    (IsSome(cleared) /\ IsSome(Get(cleared).loadedOver)) =>
        /\ state.mode = "create"
        /\ state.currentNodeId = Null
        /\ state.renderOptions = Get(Get(cleared).loadedOver)
        /\ state.draftState = None

\* a round trip has completed over an artifact whose options differ from the
\* draft in every field
C1_Witness ==
    /\ IsSome(cleared) /\ IsSome(Get(cleared).loadedOver)
    /\ Get(cleared).renderOptions = OptionsFrom(SavedArtifact.texSource,
                                                SavedArtifact.renderOptions)
    /\ state.renderOptions.tex /= ""
    /\ \A k \in DOMAIN state.renderOptions :
            state.renderOptions[k] /= Get(cleared).renderOptions[k]

---------------------------------------------------------------------------
(* Loading external data and the sync timer *)

\* C2: loading external node data never arms the sync timer.  The render
\* chained by loadNodeData settles without arming it, and in a session in
\* which the user has edited nothing (everything rendered stems from an
\* initialize or loadNodeData message) the timer is never armed, so no
\* update is pushed back to the host.
C2_LoadNeverArms ==
    [][(edits' = 0 \/ LoadRenderSettles) => ~ArmStep /\ toHost' = toHost]_vars

---------------------------------------------------------------------------
(* Debounced sync pusher *)

\* C3: the sync timer is armed only at a moment when mode = "edit" and
\* isLoadingNodeData = false, at each of its arming sites (completion of a
\* full render, the styling-only update, the direct sub-expression update).
C3_ArmOnlyInEdit ==
    [][ArmStep => state'.mode = "edit" /\ ~state'.isLoadingNodeData]_vars

\* the timer has been armed by a styling-only update: the user changed a
\* styling field of a loaded artifact and the node on display was restyled
C3_Witness ==
    /\ timeouts /= {} /\ edits = 1
    /\ state.mode = "edit" /\ ~state.isLoadingNodeData
    /\ state.currentSVGWrapper /= None
    /\ state.lastRenderedTex = Some(SavedArtifact.texSource)
    /\ state.renderOptions.fontSize /= SavedArtifact.renderOptions.fontSize

\* C4: when the sync timer fires while mode is not "edit" nothing is posted
\* to the host, and a step that takes the session from edit to create mode
\* leaves the pending timer armed.
C4_FireOutsideEditIsNoOp ==
    [][/\ (FireStep /\ state.mode /= "edit") => toHost' = toHost
       /\ (state.mode = "edit" /\ state'.mode = "create") => timeouts' = timeouts]_vars

\* a timer armed in edit mode was still pending when clearNodeData was
\* handled, and has fired since, in create mode
C4_Witness ==
    /\ IsSome(cleared) /\ Get(cleared).timeouts /= {}
    /\ state.mode = "create"
    /\ timeouts = {}

\* C5: at most one sync timer is pending at any time: arming cancels the
\* pending timer first, so the timer armed last is the only one, and its
\* firing posts at most one update.
C5_OneTimerPending ==
    /\ [](Cardinality(timeouts) <= 1)
    /\ [][/\ ArmStep => timeouts' = {updateTimer'}
          /\ FireStep => timeouts' = {} /\ Len(toHost') <= Len(toHost) + 1]_vars

\* a burst: a settle cancelled the pending timer and armed a new one, which
\* has fired and posted the one update of the burst
C5_Witness ==
    /\ coalesced >= 1
    /\ timeouts = {}
    /\ Len(toHost) = 1 /\ toHost[1].updateExisting

---------------------------------------------------------------------------
(* Mode / draft controller: invariants of the session state *)

\* C6: mode = "create" implies currentNodeId is null.
C6_CreateHasNoNode == state.mode = "create" => state.currentNodeId = Null

\* the session came back to create mode from an artifact it was editing
C6_Witness ==
    /\ state.mode = "create"
    /\ IsSome(cleared) /\ Get(cleared).currentNodeId /= Null
    /\ state.currentNodeId = Null

C9_PlaceThenClear ==
    (IsSome(cleared) /\ Get(cleared).committed = "loaded") =>
        /\ Get(cleared).draftState = None
        /\ state.draftState = None
        /\ state.renderOptions = [Get(cleared).renderOptions EXCEPT !.tex = ""]

\* C10: a clearNodeData handled when draftState is null changes, within
\* renderOptions, only the text: display, fontSize, backgroundColor, fontColor
\* and subExpressionStyles are as before, and tex is empty.
C10_ClearKeepsSettings ==
    (IsSome(cleared) /\ Get(cleared).draftState = None) =>
        /\ state.renderOptions.tex = ""
        /\ \A k \in DOMAIN state.renderOptions \ {"tex"} :
                state.renderOptions[k] = Get(cleared).renderOptions[k]

\* a clearNodeData found no draft and settings that are not the defaults
C10_Witness ==
    /\ IsSome(cleared) /\ Get(cleared).draftState = None
    /\ Get(cleared).renderOptions.tex /= ""
    /\ state.renderOptions.tex = ""
    /\ state.renderOptions.fontSize /= DEFAULT_RENDER_OPTIONS.fontSize
    /\ state.renderOptions.subExpressionStyles /= <<>>

---------------------------------------------------------------------------
(* Render dispatcher *)

\* the rendered trees attached to #output
RenderedTrees == {i \in 1..Len(output) : output[i].kind = "svg"}

\* a user edit other than Place that finds the current text and display mode
\* rendered and changes neither
StylingEditStep ==
    /\ edits' = edits + 1 /\ ~PlaceStep
    /\ state.currentSVGWrapper /= None
    /\ Trim(state.renderOptions.tex) /= ""
    /\ state.lastRenderedTex = Some(state.renderOptions.tex)
    /\ state.lastRenderedDisplay = Some(state.renderOptions.display)
    /\ state'.renderOptions.tex = state.renderOptions.tex
    /\ state'.renderOptions.display = state.renderOptions.display

\* the .catch of renderMath ran: the error element was appended
RejectStep ==
    /\ \E r \in inflight : inflight' = inflight \ {r}
    /\ output' = Append(output, ErrorElement)

\* renderMath ran on blank text: #output holds the message element alone
BlankRenderStep == output' = <<MessageElement>> /\ output' /= output

\* the callback of the preference save timer ran
SaveTimerStep == saveTimer /\ ~saveTimer'

\* C11: after a full render of non-blank text, an edit that changes only
\* font color, background color, font size or sub-expression styles takes the
\* styling-only path: needsFullRender is false, the text is not typeset again,
\* and currentSVGWrapper, lastRenderedTex and lastRenderedDisplay are unchanged.
C11_StylingOnlyPath ==
    [][StylingEditStep =>
            /\ ~needsFullRender(state')
            /\ inflight' = inflight
            /\ state'.currentSVGWrapper = state.currentSVGWrapper
            /\ state'.lastRenderedTex = state.lastRenderedTex
            /\ state'.lastRenderedDisplay = state.lastRenderedDisplay]_vars

\* the font size of a loaded artifact was edited and the one tree on display
\* was restyled in place
C11_Witness ==
    /\ edits = 1 /\ inflight = {} /\ coalesced >= 1
    /\ state.mode = "edit"
    /\ state.renderOptions.tex = SavedArtifact.texSource
    /\ state.renderOptions.display = SavedArtifact.renderOptions.display
    /\ state.renderOptions.fontSize /= SavedArtifact.renderOptions.fontSize
    /\ state.lastRenderedTex = Some(state.renderOptions.tex)
    /\ Len(output) = 1 /\ output[1].kind = "svg"
    /\ state.currentSVGWrapper = Some(output[1].rid)
    /\ output[1].fontSize = state.renderOptions.fontSize

\* C12: a render the typesetting engine rejects sets currentSVGWrapper,
\* lastRenderedTex and lastRenderedDisplay to null and arms no sync timer, so
\* needsFullRender is true for the next convert.
C12_FailedRenderResets ==
    [][RejectStep =>
            /\ state'.currentSVGWrapper = None
            /\ state'.lastRenderedTex = None
            /\ state'.lastRenderedDisplay = None
            /\ ~ArmStep
            /\ needsFullRender(state')]_vars

\* a render failed in edit mode, outside a load, after an earlier render of
\* the same session had succeeded
C12_Witness ==
    /\ output /= <<>> /\ output[Len(output)] = ErrorElement
    /\ state.currentSVGWrapper = None /\ state.lastRenderedTex = None
    /\ state.mode = "edit" /\ ~state.isLoadingNodeData
    /\ updateTimer /= 0

\* C13: a full render of blank text does not call the typesetting engine,
\* leaves currentSVGWrapper, lastRenderedTex and lastRenderedDisplay null and
\* arms no sync timer; a sync timer that fires while #output holds no
\* rendered tree first posts nothing.
C13_BlankRender ==
    [][/\ BlankRenderStep =>
            /\ inflight' \subseteq inflight
            /\ state'.currentSVGWrapper = None
            /\ state'.lastRenderedTex = None
            /\ state'.lastRenderedDisplay = None
            /\ ~ArmStep
       /\ (FireStep /\ (output = <<>> \/ output[1].kind /= "svg"))
            => toHost' = toHost]_vars

\* the text of a loaded artifact was emptied while its sync timer was
\* pending, and the timer has fired on the message element
C13_Witness ==
    /\ state.mode = "edit"
    /\ output = <<MessageElement>>
    /\ state.currentSVGWrapper = None
    /\ coalesced = 0 /\ updateTimer /= 0 /\ timeouts = {}
    /\ edits = 1 /\ toHost = <<>>
    /\ canvas = [n \in InitialArtifacts |-> SavedArtifact]

\* C14: #output holds at most one rendered tree, and the tree it holds is
\* the one currentSVGWrapper refers to.
C14_OneTreeLive ==
    /\ Cardinality(RenderedTrees) <= 1
    /\ \A i \in RenderedTrees : state.currentSVGWrapper = Some(output[i].rid)

\* C15: the preference save timer posts no saveUserPreferences message
\* while mode = "edit", also when it was armed before the switch to edit mode.
C15_SaveOnlyInCreate ==
    [][(SaveTimerStep /\ IsSome(toStorage')) => state'.mode /= "edit"]_vars

---------------------------------------------------------------------------
(* Tree matcher and styling applier *)

\* the place of a node of the tree in document order
DocumentIndex(node) ==
    LET order == Preorder(Get(tree), <<>>)
    IN  CHOOSE n \in 1..Len(order) : order[n] = node

\* the children first..first+k-1 of the node at parent
SiblingRun(parent, first, k) == [j \in 1..k |-> Append(parent, first + j - 1)]

\* the top-level children of the reference stand at parent from child first on
ExactRunAt(parent, first) ==
    LET children == At(Get(tree), parent).children
        reference == Get(subtree).children
    IN  /\ Len(reference) >= 1
        /\ first + Len(reference) - 1 <= Len(children)
        /\ \A j \in 1..Len(reference) : children[first + j - 1] = reference[j]

\* the positions where a run of siblings can start
RunStarts ==
    {pf \in Paths(Get(tree)) \X (1..MaxChildren) :
        pf[2] <= Len(At(Get(tree), pf[1]).children)}

\* C16: when the top-level children of the reference stand in the tree as an
\* exact run of consecutive siblings, at any depth, findSubtreeMatches returns
\* a match that consists of exactly that run.
C16_RunsAreFound ==
    matches /= None =>
        \A pf \in RunStarts :
            ExactRunAt(pf[1], pf[2]) =>
                \E n \in 1..Len(Get(matches)) :
                    Get(matches)[n] =
                        SiblingRun(pf[1], pf[2], Len(Get(subtree).children))

\* the reference stands below a group and at the top level, and both runs
\* were returned
C16_Witness ==
    /\ matches /= None
    /\ \E pf \in RunStarts :
            /\ Len(pf[1]) = 1 /\ ExactRunAt(pf[1], pf[2])
            /\ \E n \in 1..Len(Get(matches)) : Get(matches)[n] = <<Append(pf[1], pf[2])>>
    /\ \E pf \in RunStarts : pf[1] = <<>> /\ ExactRunAt(pf[1], pf[2])

\* C17: the matches getMatchesByTex returns are those findSubtreeMatches
\* found, in document order of the first node of each match.
C17_DocumentOrder ==
    sortedMatches /= None =>
        LET found == Get(matches)
            sorted == Get(sortedMatches)
        IN  /\ Len(sorted) = Len(found)
            /\ \A n \in 1..Len(found) :
                    Cardinality({i \in 1..Len(sorted) : sorted[i] = found[n]})
                        = Cardinality({i \in 1..Len(found) : found[i] = found[n]})
            /\ \A i, j \in 1..Len(sorted) :
                    (i < j /\ sorted[i] /= <<>> /\ sorted[j] /= <<>>) =>
                        DocumentIndex(sorted[i][1]) <= DocumentIndex(sorted[j][1])

\* findSubtreeMatches found a match at the top level before one inside an
\* earlier group, and the sort exchanged them
C17_Witness ==
    /\ sortedMatches /= None
    /\ Len(Get(matches)) >= 2
    /\ Get(matches)[1] /= <<>> /\ Get(matches)[2] /= <<>>
    /\ DocumentIndex(Get(matches)[2][1]) < DocumentIndex(Get(matches)[1][1])
    /\ Get(sortedMatches)[1] = Get(matches)[2]

\* the node pairs traverse hands to nodeMatches: a node of the tree below the
\* root, with the root of the reference or one of its children
ComparedPairs ==
    {pq \in (Paths(Get(tree)) \ {<<>>}) \X Paths(Get(subtree)) : Len(pq[2]) <= 1}

\* C18: nodeMatches holds of two nodes exactly when they have the same tag,
\* the same semantic node type, the same literal-character attribute whenever
\* either has one, and pairwise equal children in the same number and order.
C18_NodeEquality ==
    tree /= None =>
        \A pq \in ComparedPairs :
            nodeMatches(At(Get(tree), pq[1]), At(Get(subtree), pq[2]))
                <=> At(Get(tree), pq[1]) = At(Get(subtree), pq[2])

\* C19: every match findSubtreeMatches returns is a non-empty list of
\* consecutive siblings of the tree, also for a reference without children.
C19_MatchesAreSiblingRuns ==
    matches /= None =>
        \A n \in 1..Len(Get(matches)) :
            LET m == Get(matches)[n]
            IN  /\ Len(m) >= 1
                /\ \E pf \in RunStarts : m = SiblingRun(pf[1], pf[2], Len(m))

\* the occurrence indices typed, in order; None for a piece that is no number
TypedIndices ==
    LET pieces == Split(TrimChars(Get(occurrences)))
        typed == SelectSeq([i \in 1..Len(pieces) |-> TrimChars(pieces[i])],
                           LAMBDA p : p /= <<>>)
    IN  [i \in 1..Len(typed) |-> parseInt(typed[i])]

\* the places of the typed indices outside 1..matchCount
OutOfRangeAt ==
    {i \in 1..Len(TypedIndices) :
        /\ TypedIndices[i] /= None
        /\ Get(TypedIndices[i]) \notin 1..Len(Get(sortedMatches))}

\* C20 as stated: with at least one match, an occurrences list that holds
\* an index outside 1..matchCount is reported as out of range and no node is
\* painted for the entry.
C20_OutOfRangeReported ==
    (occurrences /= None /\ Get(sortedMatches) /= <<>> /\ OutOfRangeAt /= {}) =>
        /\ reported = Some("outOfRange")
        /\ painted = {}

\* C20: with at least one match, an occurrences list that holds an index
\* outside 1..matchCount paints no node for the entry and reports an error:
\* out of range, unless a piece that is no number stands before the first
\* such index, and then the invalid occurrence number.
C20_FirstErrorReported ==
    (occurrences /= None /\ Get(sortedMatches) /= <<>> /\ OutOfRangeAt /= {}) =>
        LET first == CHOOSE i \in OutOfRangeAt : \A j \in OutOfRangeAt : i <= j
        IN  /\ painted = {}
            /\ reported = IF \A j \in 1..(first - 1) : TypedIndices[j] /= None
                          THEN Some("outOfRange")
                          ELSE Some("invalidOccurrence")

\* a valid index typed before an index past the number of matches: the error
\* is reported and the valid occurrence, which has nodes, is not painted
C20_Witness ==
    /\ occurrences = Some(<<"1", ",", " ", "3">>)
    /\ Len(Get(sortedMatches)) \in 1..2
    /\ Get(sortedMatches)[1] /= <<>>
    /\ reported = Some("outOfRange")
    /\ painted = {}

\* the entries typed in the occurrences field, trimmed, blanks dropped
TypedTokens ==
    LET pieces == Split(TrimChars(Get(occurrences)))
    IN  SelectSeq([i \in 1..Len(pieces) |-> TrimChars(pieces[i])], LAMBDA p : p /= <<>>)

\* a token that is a decimal integer: digits after an optional sign
IsInteger(token) ==
    LET body == IF token /= <<>> /\ Head(token) \in {"-", "+"} THEN Tail(token) ELSE token
    IN  body /= <<>> /\ \A i \in 1..Len(body) : IsDigit(body[i])

\* the value of a token that is a decimal integer without sign
RECURSIVE Decimal(_)
Decimal(token) ==
    IF token = <<>> THEN 0
    ELSE 10 * Decimal(SubSeq(token, 1, Len(token) - 1)) + DigitValue(token[Len(token)])

\* the nodes whose fill is set when the matches at the given positions of the
\* reading-order list are painted: their nodes and the groups nested in them
NodesOfMatches(positions) ==
    {node \in Paths(Get(tree)) :
        \E i \in positions : \E k \in 1..Len(Get(sortedMatches)[i]) :
            LET top == Get(sortedMatches)[i][k]
            IN  \/ node = top
                \/ /\ Len(node) > Len(top)
                   /\ SubSeq(node, 1, Len(top)) = top
                   /\ At(Get(tree), node).tagName = "g"
                   /\ At(Get(tree), node).dataMmlNode /= "merror"}

\* C21: with at least one match, an occurrences list that holds a token that
\* is not an integer is reported as an invalid occurrence and no node is
\* painted for the entry.
C21_InvalidTokenReported ==
    (/\ occurrences /= None /\ Get(sortedMatches) /= <<>>
     /\ \E i \in 1..Len(TypedTokens) : ~IsInteger(TypedTokens[i])) =>
        /\ reported = Some("invalidOccurrence")
        /\ painted = {}

\* C22: with at least one match, a blank occurrences field paints every
\* match, and a list of valid indices paints exactly the matches at those
\* 1-based positions of the list in reading order.
C22_PaintsSelectedMatches ==
    (occurrences /= None /\ Get(sortedMatches) /= <<>>) =>
        LET count == Len(Get(sortedMatches))
        IN  /\ TrimChars(Get(occurrences)) = <<>> =>
                    painted = NodesOfMatches(1..count) /\ reported = None
            /\ (/\ TrimChars(Get(occurrences)) /= <<>>
                /\ \A i \in 1..Len(TypedTokens) :
                        /\ IsInteger(TypedTokens[i])
                        /\ Head(TypedTokens[i]) \notin {"-", "+"}
                        /\ Decimal(TypedTokens[i]) \in 1..count) =>
                    /\ painted = NodesOfMatches({Decimal(TypedTokens[i]) :
                                                    i \in 1..Len(TypedTokens)})
                    /\ reported = None

\* occurrence 1 was asked for where the match found first is not the first
\* in reading order, and the first in reading order alone was painted
C22_Witness ==
    /\ occurrences = Some(<<"1">>)
    /\ Len(Get(sortedMatches)) = 2
    /\ Get(sortedMatches)[1] = Get(matches)[2]
    /\ Get(sortedMatches)[1] /= Get(sortedMatches)[2]
    /\ Len(Get(sortedMatches)[1]) = 1
    /\ painted = {Get(sortedMatches)[1][1]}

---------------------------------------------------------------------------
(* Style lists                                                              *)

\* what the applier reports for one entry of a style list on the tree; None
\* for a blank entry and for an entry that validates
ReportedFor(root, style) ==
    IF style.expression = None THEN None
    ELSE applySubExpressionColors(root, Get(style.expression), style.occurrences).reported

\* the nodes the applier paints for one entry
PaintedFor(root, style) ==
    IF style.expression = None THEN {}
    ELSE applySubExpressionColors(root, Get(style.expression), style.occurrences).painted

\* the list with entry k left out of the processing: its expression is blank
Blanked(list, k) == [list EXCEPT ![k].expression = None]

\* the fills a styling handler starts its run of the list from: the fills
\* as they are (direct styling update) or after the base recolor
StartFills(root, fills) ==
    {fills, styleErrorNodes(root, setSVGColor(root, fills, BaseFontColor))}

\* C23: a styling run leaves, for every entry that fails (not found, invalid
\* token, out of range), no paint of that entry, and the colors and errors
\* of all other entries exactly as the run without the failing entry leaves
\* them
C23_ErrorsAreLocal ==
    [][runs' /= runs =>
        \A k \in 1..Len(styleList') :
            ReportedFor(Get(tree), styleList'[k]) /= None =>
                /\ PaintedFor(Get(tree), styleList'[k]) = {}
                /\ \E start \in StartFills(Get(tree), fill) :
                    /\ fill' = forEachStyle(Get(tree), styleList', 1,
                                    [fill |-> start, shown |-> {}]).fill
                    /\ fill' = forEachStyle(Get(tree), Blanked(styleList', k), 1,
                                    [fill |-> start, shown |-> {}]).fill
                    /\ {e \in shown' : e.row /= k}
                         = forEachStyle(Get(tree), Blanked(styleList', k), 1,
                                    [fill |-> start, shown |-> {}]).shown]_vars

\* a failing first entry, its error shown, is followed by an entry of
\* another color that has painted a node
C23_Witness ==
    /\ runs = 2 /\ Len(styleList) = 2
    /\ ReportedFor(Get(tree), styleList[1]) /= None
    /\ styleList[1].color /= styleList[2].color
    /\ \E p \in DOMAIN fill :
        p \in PaintedFor(Get(tree), styleList[2]) /\ fill[p] = styleList[2].color
    /\ \E e \in shown : e.row = 1

\* the error-tagged nodes of the tree
ErrorNodes(root) == {p \in Paths(root) : At(root, p).dataMmlNode = "merror"}

\* C24: after the base recolor and the painting of a styling run every
\* error-tagged node is red, its background rectangle yellow and its text
\* group red, whatever the entries of the style list match
C24_ErrorStylingKept ==
    runs >= 1 =>
        \A e \in ErrorNodes(Get(tree)) :
            /\ fill[e] = "red"
            /\ \A p \in DOMAIN fill :
                /\ QuerySelector(Get(tree), e, "rect", Null) = Some(p) => fill[p] = "yellow"
                /\ QuerySelector(Get(tree), e, "g", "mtext") = Some(p) => fill[p] = "red"

\* the errors a run of the applier finds for the list on the tree
ErrorsFound(root, list) ==
    {[row |-> k,
      field |-> IF ReportedFor(root, list[k]) = Some("notFound") THEN "tex" ELSE "occurrence",
      message |-> Get(ReportedFor(root, list[k]))] :
        k \in {j \in 1..Len(list) : ReportedFor(root, list[j]) /= None}}

\* C25: after a styling run the errors shown on the rows are exactly the
\* errors the run found for the list it ran on: no error of an earlier run
\* stays on an entry that now validates, is blank or is gone
C25_ErrorsAreCurrent ==
    runs >= 1 => shown = ErrorsFound(Get(tree), styleList)

\* after an edit of a row and the run it starts: one entry is blank or
\* validates and shows nothing, the other entry shows its error
C25_Witness ==
    /\ runs = 2 /\ Len(styleList) = 2
    /\ ReportedFor(Get(tree), styleList[1]) = None
    /\ ReportedFor(Get(tree), styleList[2]) = Some("outOfRange")
    /\ shown = {[row |-> 2, field |-> "occurrence", message |-> "outOfRange"]}

---------------------------------------------------------------------------
(* Selection                                                                *)

\* the places of the chain whose node has saved text and parseable options
WithData(chain) ==
    {i \in 1..Len(chain) :
        /\ chain[i].texSource /= "" /\ chain[i].renderOptionsStr /= ""
        /\ JSONParse(chain[i].renderOptionsStr) /= None}

\* the nearest of them
Nearest(chain) == CHOOSE i \in WithData(chain) : \A j \in WithData(chain) : i <= j

\* C26: every selection change posts exactly one message.  With a single
\* node selected and a node with saved text and parseable options on its
\* chain, it is loadNodeData with the text, options and id of the nearest
\* such node, which becomes the tracked node; otherwise it is clearNodeData
\* and no node is tracked
C26_OneMessagePerSelection ==
    [][selChanges' /= selChanges =>
        /\ Len(toUI') = Len(toUI) + 1
        /\ SubSeq(toUI', 1, Len(toUI)) = toUI
        /\ IF selected' = 1 /\ WithData(ancestry') /= {}
           THEN /\ toUI'[Len(toUI')] =
                     [type |-> "loadNodeData",
                      texSource |-> ancestry'[Nearest(ancestry')].texSource,
                      renderOptions |->
                          Get(JSONParse(ancestry'[Nearest(ancestry')].renderOptionsStr)),
                      nodeId |-> ArtifactIds[Nearest(ancestry')]]
                /\ currentNodeWithData' = ArtifactIds[Nearest(ancestry')]
           ELSE /\ toUI'[Len(toUI')] = [type |-> "clearNodeData"]
                /\ currentNodeWithData' = Null]_vars

\* the selected node has text and damaged options, its parent nothing, and
\* the grandparent's data has been loaded after an earlier selection was
\* cleared
C26_Witness ==
    /\ selected = 1 /\ Len(ancestry) = 3
    /\ ancestry[1].texSource /= "" /\ ancestry[1].renderOptionsStr = "{\"display\":"
    /\ ancestry[2].texSource = ""
    /\ Len(toUI) = 2
    /\ toUI[1].type = "clearNodeData"
    /\ toUI[2].type = "loadNodeData" /\ toUI[2].nodeId = "n3"
    /\ currentNodeWithData = "n3"

---------------------------------------------------------------------------
(* Colors                                                                   *)

UpperHexChars == {"0", "1", "2", "3", "4", "5", "6", "7", "8", "9",
                  "A", "B", "C", "D", "E", "F"}

\* the argument is 1 to 3 hex digits, with or without the # prefix
IsShortHex(str) ==
    /\ Len(StripHash(str)) \in 1..3
    /\ \A i \in 1..Len(StripHash(str)) : StripHash(str)[i] \in HexChars

\* C28: for 1 to 3 hex digits, with or without #, expandColor returns six
\* uppercase hex characters without #; expanding the result again returns
\* it unchanged; the empty string gives the empty string
C28_ExpandColor ==
    /\ expanded /= None /\ IsShortHex(colorInput) =>
        /\ Len(Get(expanded)) = 6
        /\ \A i \in 1..6 : Get(expanded)[i] \in UpperHexChars
    /\ expandedAgain /= None /\ IsShortHex(colorInput) => expandedAgain = expanded
    /\ expanded /= None /\ colorInput = <<>> => expanded = Some(<<>>)

\* '#aF' has been expanded to 'AFAFAF', and that again to itself
C28_Witness ==
    /\ colorInput = <<"#", "a", "F">>
    /\ expanded = Some(<<"A", "F", "A", "F", "A", "F">>)
    /\ expandedAgain = expanded

---------------------------------------------------------------------------
(* Loads, pushes and updates in flight                                      *)

\* C27: isLoadingNodeData goes back to false only when no render started by
\* a loadNodeData is still in flight
C27_FlagClearedAfterRender ==
    [][state.isLoadingNodeData /\ ~state'.isLoadingNodeData =>
        \A r \in inflight' : r.then /= "load"]_vars

\* C29: every message pushed to the host carries markup typeset from the
\* text and the display mode the same message carries
C29_MarkupOfItsText ==
    \A i \in 1..Len(toHost) :
        toHost[i].type = "svg" =>
            /\ toHost[i].svg.tex = toHost[i].tex
            /\ toHost[i].svg.display = toHost[i].display

\* the backend handles an update-existing message the UI posted while it
\* was editing an artifact
UpdateApplied ==
    /\ toHost /= <<>> /\ toHost' = Tail(toHost)
    /\ Head(toHost).type = "svg" /\ Head(toHost).updateExisting
    /\ Head(sentFor) /= Null

\* C30: the artifact createOrUpdateNode writes an update-existing message
\* to, the backend's tracked node, is the artifact the UI was editing when
\* it posted the message; no other artifact is written and none is created
C30_UpdateReachesItsArtifact ==
    [][UpdateApplied =>
        /\ currentNodeWithData = Head(sentFor)
        /\ DOMAIN canvas' = DOMAIN canvas
        /\ \A n \in DOMAIN canvas \ {Head(sentFor)} : canvas'[n] = canvas[n]]_vars

---------------------------------------------------------------------------
(* Artifacts, drafts and the round trip                                     *)

\* C31: the backend handling a message with updateExisting = true leaves
\* the set of artifacts on the canvas as it is
C31_UpdateNeverCreates ==
    [][(/\ toHost /= <<>> /\ toHost' = Tail(toHost)
        /\ Head(toHost).type = "svg" /\ Head(toHost).updateExisting)
            => DOMAIN canvas' = DOMAIN canvas]_vars

\* C32: a clearNodeData message handled while the mode is 'create' leaves
\* renderOptions, the text among them, unchanged
C32_ClearKeepsUnplacedWork ==
    [][ClearStep /\ state.mode = "create" => state'.renderOptions = state.renderOptions]_vars

\* C33: once no typesetting call is in flight, no continuation is queued
\* and a rendered tree is tracked, the tracked render is the render of the
\* current text and display mode
C33_LatestRenderApplied ==
    (inflight = {} /\ microtasks = <<>> /\ state.currentSVGWrapper /= None) =>
        /\ state.lastRenderedTex = Some(state.renderOptions.tex)
        /\ state.lastRenderedDisplay = Some(state.renderOptions.display)

\* the initialize message has been handled and nothing it started is
\* pending: no message, no continuation, no typesetting call; the user has
\* done nothing yet
InitializationSettled ==
    /\ initSent /\ toUI = <<>> /\ toHost = <<>>
    /\ ~initializationResolver /\ ~isInitializing
    /\ microtasks = <<>> /\ inflight = {}
    /\ edits = 0 /\ selChanges = 0

\* C36: once the initialize message has been handled and everything it
\* started has settled, the preview is the render of the render options the
\* message loaded: a tracked tree of the current text and display mode, or
\* no tree when the text is blank or the engine rejected
C36_PreviewOfLoadedOptions ==
    InitializationSettled =>
        \/ state.currentSVGWrapper = None
           /\ (Trim(state.renderOptions.tex) = ""
               \/ \E i \in 1..Len(output) : output[i] = ErrorElement)
        \/ /\ state.currentSVGWrapper /= None
           /\ state.lastRenderedTex = Some(state.renderOptions.tex)
           /\ state.lastRenderedDisplay = Some(state.renderOptions.display)

\* the UI handles the loadNodeData message for the artifact the backend
\* created for the place message
LoadPlacedStep ==
    /\ toUI /= <<>> /\ toUI' = Tail(toUI)
    /\ Head(toUI).type = "loadNodeData"
    /\ placedAs /= Null /\ Head(toUI).nodeId = placedAs

\* C35: when the loadNodeData for the placed artifact is handled the mode
\* is still 'edit' as Place left it, the load sets currentNodeId to the new
\* artifact and saves no draft
C35_PlacedArtifactLoaded ==
    [][LoadPlacedStep =>
        /\ state.mode = "edit" /\ state'.mode = "edit"
        /\ state'.currentNodeId = placedAs
        /\ state'.draftState = state.draftState]_vars

---------------------------------------------------------------------------
(* Occurrences reported by the matcher                                      *)

\* the elements of a sequence
Range(seq) == {seq[i] : i \in 1..Len(seq)}

\* the sequential run made of all the children of the node at path p
ChildrenRun(root, p) == [i \in 1..Len(At(root, p).children) |-> Append(p, i)]

\* C37: a node of the main tree that deep-matches the reference root is
\* reported once: the result does not contain both the match made of the
\* node itself and the sequential-run match made of the node's children
\* (stated for nodes that have children, so that the run is not empty)
C37_OccurrenceReportedOnce ==
    matches /= None =>
        \A p \in Paths(Get(tree)) :
            (/\ p /= <<>> /\ At(Get(tree), p).children /= <<>>
             /\ nodeMatches(At(Get(tree), p), Get(subtree))) =>
                ~(/\ <<p>> \in Range(Get(matches))
                  /\ ChildrenRun(Get(tree), p) \in Range(Get(matches)))

---------------------------------------------------------------------------
(* Styling-only updates against full renders                                *)

\* a tree as the typesetting engine delivers it: nothing painted yet
FreshFills == [p \in Paths(Get(tree)) |-> Null]

\* a row's expression or occurrences changed, or a row was removed: the
\* handlers that end in convert -> updateStyling
UpdateStylingStep ==
    /\ runs = 1 /\ runs' = 2
    /\ \/ Len(styleList') /= Len(styleList)
       \/ \E i \in 1..Len(styleList) :
            \/ styleList'[i].expression /= styleList[i].expression
            \/ styleList'[i].occurrences /= styleList[i].occurrences

\* C38: after a styling-only update the fill of every node and the errors
\* shown on the rows are those a full render of the same text with the new
\* style list produces
C38_StylingEqualsFullRender ==
    [][UpdateStylingStep =>
        /\ fill' = typesetStyling(Get(tree), FreshFills, {}, styleList').fill
        /\ shown' = typesetStyling(Get(tree), FreshFills, {}, styleList').shown]_vars

---------------------------------------------------------------------------
(* The round trip of the options through an artifact                        *)

\* the render options a place or update message carries
MessageOptions(msg) ==
    [tex |-> msg.tex,
     display |-> msg.display,
     fontSize |-> msg.fontSize,
     backgroundColor |-> msg.backgroundColor,
     fontColor |-> msg.fontColor,
     subExpressionStyles |-> msg.subExpressionStyles]

\* the backend handles a place or update message
SvgStep == toHost /= <<>> /\ toHost' = Tail(toHost) /\ Head(toHost).type = "svg"

\* the artifact that step writes: the tracked one, or the one it creates
\* and tracks
WrittenArtifact ==
    IF currentNodeWithData /= Null /\ Head(toHost).updateExisting
    THEN currentNodeWithData ELSE currentNodeWithData'

\* a loadNodeData message is posted to the UI
LoadPosted ==
    /\ Len(toUI') > 0 /\ Len(toUI') >= Len(toUI)
    /\ toUI'[Len(toUI')].type = "loadNodeData"
    /\ (Len(toUI') = Len(toUI) => toUI'[Len(toUI')] /= toUI[Len(toUI)])

\* the UI handles a loadNodeData message
LoadStep == toUI /= <<>> /\ toUI' = Tail(toUI) /\ Head(toUI).type = "loadNodeData"

---------------------------------------------------------------------------
(* Synchronisation of an edit with its artifact                             *)

\* an artifact was edited with no load in progress, every render since has
\* succeeded, no other event has occurred, and nothing is pending any more
EditSettled ==
    /\ sinceEdit /= None
    /\ inflight = {} /\ microtasks = <<>> /\ timeouts = {}

\* C34: when the edit of an artifact has settled, exactly one update message
\* has been posted since the edit, and it carries the current render options
\* and the markup typeset from them
C34_EditSyncedOnce ==
    EditSettled =>
        /\ Len(Get(sinceEdit)) = 1
        /\ Get(sinceEdit)[1].type = "svg" /\ Get(sinceEdit)[1].updateExisting
        /\ MessageOptions(Get(sinceEdit)[1]) = state.renderOptions
        /\ Get(sinceEdit)[1].svg.tex = state.renderOptions.tex
        /\ Get(sinceEdit)[1].svg.display = state.renderOptions.display

=============================================================================
